---- MODULE Spec2Model ----
(***************************************************************************)
(* Inventory forecast-to-decision engine of Core-Creates/backroom.        *)
(*                                                                         *)
(*   src/src/inventory_management.py       InventoryManager                *)
(*   src/seyed-test/reorder_priority_analysis.py   find_items_to_reorder   *)
(*   src/seyed-test/forecasting_agent.py   ForecastingAgent                *)
(*                                                                         *)
(* Numbers.  pandas/numpy floats are modelled as exact rationals: a demand *)
(* value (yhat) is an integer count of 1/YDen units, other reals are       *)
(* records [num, den].  Python's round() is modelled as round-half-to-even *)
(* on the exact value; binary floating-point error is outside the model.   *)
(* Calendar dates are day numbers.                                         *)
(***************************************************************************)
EXTENDS Integers, Sequences, FiniteSets, TLC

VARIABLES
    forecast_df,      \* the forecast frame handed to the analyzers: Seq([ds, yhat])
    inv,              \* table inv: rows [item_id, unit] in storage order
    item_dim,         \* table item_dim: item_id -> details row   (rows present)
    the_item,         \* item_id of the single-item request
    insights,         \* result of generate_inventory_insights, None before the call
    sales,            \* table sales: rows [item_id, date, sale] in storage order
    predicted,        \* demand predictor: item_id -> the curve it predicts
    args,             \* arguments of the call under analysis
    result,           \* value returned by that call, None before it
    all_items,        \* find_items_to_reorder: item ids read from inv
    idx,              \* find_items_to_reorder: 1-based position of the loop
    reorder_analysis, \* find_items_to_reorder: list of entries
    report,           \* find_items_to_reorder: the report returned
    stdout,           \* find_items_to_reorder: failure messages printed, in order
    pc                \* position of the running procedure

vars == <<forecast_df, inv, item_dim, the_item, insights, sales, predicted,
          args, result, all_items, idx, reorder_analysis, report, stdout, pc>>

----------------------------------------------------------------------------
(* Bounds of the model *)

YDen     == 2     \* demand grid: yhat is a multiple of 1/YDen
MaxRate  == 2     \* largest daily demand, in 1/YDen units
MaxDays  == 16    \* longest forecast frame (rows) of the single-item analysis
MaxInv   == 4     \* largest on-hand unit count
MaxLead  == 2     \* largest lead time (days)
HoldDen  == 4     \* holding cost grid: a rate is a multiple of 1/HoldDen
FirstDay == 3     \* day number of the first forecast row
NItems   == 3     \* rows of table inv seen by the ranker
HistDays == 2     \* days of sales history in front of the ranker's forecast window

MaxGap     == 2    \* sales dates lie in FirstDay..FirstDay + MaxGap
MaxSale    == 2    \* largest quantity of one sales row
MaxHorizon == 2    \* largest forecast_days of the single-item forecast
MaxRows    == 3    \* longest frame handed to one analyzer on its own
MaxUnits   == 3    \* largest number in a cell of the inventory file

DefaultShelfLow == 3    \* shelf_low_threshold of clean_inventory_df by default

PriceDen  == 256           \* price grid: a price is a multiple of 1/PriceDen
Prices    == {0, 1, PriceDen}    \* unit prices, in 1/PriceDen units
HoldRates == {0, 1}        \* holding cost rates, in 1/HoldDen units

----------------------------------------------------------------------------
(* Python values *)

None        == [t |-> "NoneType"]
PyInt(i)    == [t |-> "int", v |-> i]
PyStr(s)    == [t |-> "str", v |-> s]
IsInt(x)    == x.t = "int"
IsStr(x)    == x.t = "str"

(* Exact rationals standing for floats *)
RECURSIVE Gcd(_, _)
Gcd(a, b)   == IF b = 0 THEN a ELSE Gcd(b, a % b)
Abs(n)      == IF n < 0 THEN -n ELSE n
\* n/d in lowest terms, d > 0
Rat(n, d)   == LET g == Gcd(Abs(n), Abs(d))
                   sgn == IF d < 0 THEN -1 ELSE 1
               IN  [num |-> sgn * (n \div g), den |-> sgn * (d \div g)]
RMul(x, y)  == Rat(x.num * y.num, x.den * y.den)
RSub(x, y)  == Rat(x.num * y.den - y.num * x.den, x.den * y.den)
RLt(x, y)   == x.num * y.den < y.num * x.den
RLe(x, y)   == x.num * y.den <= y.num * x.den
REq(x, y)   == x.num * y.den = y.num * x.den
RMin(x, y)  == IF RLe(x, y) THEN x ELSE y
RDiv(x, y)  == Rat(x.num * y.den, x.den * y.num)

Pow10(k)    == IF k = 0 THEN 1 ELSE IF k = 1 THEN 10 ELSE 100

(* round-half-to-even of n/d (d > 0) to an integer *)
RoundHalfEven(n, d) ==
    LET q == n \div d
        r == n % d
    IN  IF 2 * r < d THEN q
        ELSE IF 2 * r > d THEN q + 1
        ELSE IF q % 2 = 0 THEN q ELSE q + 1

(* Python round(x, k): the result counted in units of 10^-k *)
round(x, k) == RoundHalfEven(x.num * Pow10(k), x.den)

SetMin(S) == CHOOSE m \in S : \A x \in S : m <= x

\* s[1] + ... + s[i]
RECURSIVE SumTo(_, _)
SumTo(s, i) == IF i = 0 THEN 0 ELSE SumTo(s, i - 1) + s[i]

\* Series.sum()
SeqSum(s) == SumTo(s, Len(s))

----------------------------------------------------------------------------
(* pandas column operations used by the analyzers *)

yhat_col(df) == [i \in 1..Len(df) |-> df[i].yhat]

\* Series.cumsum(): the running total, row by row
RECURSIVE cumsum_from(_, _, _)
cumsum_from(s, i, acc) ==
    IF i > Len(s) THEN acc
    ELSE cumsum_from(s, i + 1, Append(acc, (IF i = 1 THEN 0 ELSE acc[i - 1]) + s[i]))

cumsum(s) == cumsum_from(s, 1, <<>>)

\* A forecast frame of n rows: demand a on the first k days and b afterwards;
\* dates are consecutive days from FirstDay, with one day missing after row g
\* when g > 0.
ForecastFrame(n, k, a, b, g) ==
    [i \in 1..n |->
        [ ds   |-> FirstDay + (i - 1) + (IF g > 0 /\ i > g THEN 1 ELSE 0),
          yhat |-> IF i <= k THEN a ELSE b ]]

\* strftime('%Y-%m-%d') of a day
strftime(d) == PyStr(<<"%Y-%m-%d", d>>)

----------------------------------------------------------------------------
(* InventoryManager.calculate_coverage_days *)

\* mutant: the thresholds taken as exclusive
coverage_status_exclusive(coverage_days) ==
    IF coverage_days < 7 THEN "critical"
    ELSE IF coverage_days < 14 THEN "low" ELSE "adequate"

coverage_status(coverage_days) ==
    IF coverage_days <= 7 THEN "critical"
    ELSE IF coverage_days <= 14 THEN "low" ELSE "adequate"

\* A raised exception, as the value of the call that raised it
Raise(e) == [raised |-> e]
Raised(x) == "raised" \in DOMAIN x

\* mutant: the comparison of the selection turned round
exhausted_ds_reversed(df, current_inventory) ==
    LET cum_demand == cumsum(yhat_col(df))
    IN  {df[i].ds : i \in {j \in 1..Len(df) : cum_demand[j] <= current_inventory * YDen}}

\* mutant: only the days on which demand has gone beyond the stock
exhausted_ds_strict(df, current_inventory) ==
    LET cum_demand == cumsum(yhat_col(df))
    IN  {df[i].ds : i \in {j \in 1..Len(df) : cum_demand[j] > current_inventory * YDen}}

\* fcst.loc[fcst['cum_demand'] >= current_inventory, 'ds']: the dates selected
exhausted_ds(df, current_inventory) ==
    LET cum_demand == cumsum(yhat_col(df))
    IN  {df[i].ds : i \in {j \in 1..Len(df) : cum_demand[j] >= current_inventory * YDen}}

\* mutant: the exhaustion day counted in
days_from_start_inclusive(df, cover_until) ==
    cover_until - SetMin({df[i].ds : i \in 1..Len(df)}) + 1

\* (cover_until - fcst['ds'].min()).days
days_from_start(df, cover_until) ==
    cover_until - SetMin({df[i].ds : i \in 1..Len(df)})

\* mutant: the last element, or 0 when there is none
iloc_last_or_zero(s) == [value |-> IF Len(s) = 0 THEN 0 ELSE s[Len(s)]]

\* Series.iloc[-1]: the last element, IndexError on an empty Series
iloc_last(s) == IF Len(s) = 0 THEN Raise("IndexError") ELSE [value |-> s[Len(s)]]

\* mutant: the last day's demand subtracted instead of the cumulative demand
beyond_forecast_last_day(df, current_inventory) ==
    IF Len(df) = 0 THEN Raise("IndexError")
    ELSE
    [ cover_until         |-> None,
      coverage_days       |-> PyStr(<<">", Len(df)>>),
      status              |-> "sufficient",
      remaining_inventory |-> Rat(current_inventory * YDen - df[Len(df)].yhat, YDen) ]

\* the branch taken when pd.isna(cover_until); the value is the returned dict
\* or the exception raised by iloc[-1]
beyond_forecast(df, current_inventory) ==
    LET cum_demand            == cumsum(yhat_col(df))
        forecast_days         == Len(df)
        total_forecast_demand == iloc_last(cum_demand)
    IN  IF Raised(total_forecast_demand) THEN total_forecast_demand
        ELSE
        [ cover_until         |-> None,
          coverage_days       |-> PyStr(<<">", forecast_days>>),
          status              |-> "sufficient",
          remaining_inventory |->
              Rat(current_inventory * YDen - total_forecast_demand.value, YDen) ]

\* The value is the returned dict or the raised exception.  On an empty frame
\* nothing is selected, min() is NaT and the isna branch is taken.
calculate_coverage_days(df, current_inventory) ==
    LET hit == exhausted_ds(df, current_inventory)
    IN  IF hit = {}
        THEN beyond_forecast(df, current_inventory)
        ELSE LET cover_until   == SetMin(hit)
                 coverage_days == days_from_start(df, cover_until)
             IN  [ cover_until         |-> strftime(cover_until),
                   coverage_days       |-> PyInt(coverage_days),
                   status              |-> coverage_status(coverage_days),
                   remaining_inventory |-> Rat(0, 1) ]

----------------------------------------------------------------------------
(* InventoryManager.calculate_reorder_point *)

\* Series.iloc[:k] (Python slice semantics, k may be negative or exceed the length)
iloc_head(s, k) ==
    LET stop == IF k < 0 THEN (IF Len(s) + k < 0 THEN 0 ELSE Len(s) + k)
                ELSE IF k > Len(s) THEN Len(s) ELSE k
    IN  SubSeq(s, 1, stop)

\* mutant: the sum of the rows there are, whatever the lead time
lead_time_demand_truncated(df, lead_time) ==
    Rat(SeqSum(iloc_head(yhat_col(df), lead_time)), YDen)

\* the local lead_time_demand, at full precision
lead_time_demand(df, lead_time) ==
    IF Len(df) < lead_time
    THEN LET avg_daily_demand == Rat(SeqSum(yhat_col(df)), YDen * Len(df))
         IN  RMul(avg_daily_demand, Rat(lead_time, 1))
    ELSE Rat(SeqSum(iloc_head(yhat_col(df), lead_time)), YDen)

DefaultSafetyFactor == Rat(5, 4)     \* safety_factor: float = 1.25

\* mutant: the safety stock taken as a magnitude
safety_stock_magnitude(ltd, safety_factor) ==
    LET margin == RSub(safety_factor, Rat(1, 1))
    IN  RMul(ltd, Rat(Abs(margin.num), margin.den))

\* lead_time_demand * (safety_factor - 1)
safety_stock_of(ltd, safety_factor) == RMul(ltd, RSub(safety_factor, Rat(1, 1)))

\* The value is the returned dict, or the raised exception: on an empty frame
\* with a positive lead time the mean is NaN and round(NaN) raises ValueError.
calculate_reorder_point(df, lead_time, safety_factor) ==
    IF Len(df) = 0 /\ Len(df) < lead_time THEN Raise("ValueError")
    ELSE
    LET ltd           == lead_time_demand(df, lead_time)
        safety_stock  == safety_stock_of(ltd, safety_factor)
        reorder_point == RMul(ltd, safety_factor)
    IN  [ reorder_point    |-> round(reorder_point, 0),
          lead_time_demand |-> round(ltd, 0),
          safety_stock     |-> round(safety_stock, 0),
          safety_factor    |-> safety_factor ]

----------------------------------------------------------------------------
(* InventoryManager.calculate_financial_metrics *)

\* mutant: no clip
inventory_col_unclipped(df, current_inventory) ==
    LET cum_demand == cumsum(yhat_col(df))
    IN  [i \in 1..Len(df) |-> current_inventory * YDen - cum_demand[i]]

\* Series.clip(lower=0) of current_inventory - cum_demand, in 1/YDen units
inventory_col(df, current_inventory) ==
    LET cum_demand == cumsum(yhat_col(df))
    IN  [i \in 1..Len(df) |->
            LET level == current_inventory * YDen - cum_demand[i]
            IN  IF level < 0 THEN 0 ELSE level]

\* mutant: sales not capped by the stock
expected_sales_uncapped(current_inventory, total_demand) == total_demand

\* min(current_inventory, total_demand)
expected_sales_of(current_inventory, total_demand) ==
    RMin(Rat(current_inventory, 1), total_demand)

\* the locals of calculate_financial_metrics, at full precision
financial_locals(df, current_inventory, price, holding_cost_rate) ==
    LET total_demand     == Rat(SeqSum(yhat_col(df)), YDen)
        expected_sales   == expected_sales_of(current_inventory, total_demand)
        expected_revenue == RMul(expected_sales, price)
        avg_inventory    == Rat(SeqSum(inventory_col(df, current_inventory)),
                                YDen * Len(df))
        holding_cost     == RMul(RMul(avg_inventory, holding_cost_rate),
                                 Rat(Len(df), 1))
        gross_profit     == RSub(expected_revenue, holding_cost)
    IN  [ total_demand     |-> total_demand,
          expected_sales   |-> expected_sales,
          expected_revenue |-> expected_revenue,
          avg_inventory    |-> avg_inventory,
          holding_cost     |-> holding_cost,
          gross_profit     |-> gross_profit ]

\* The returned dict.  Units: expected_revenue, holding_cost, gross_profit in
\* 1/100; avg_inventory and profit_margin in 1/10; the rest in whole units.
calculate_financial_metrics(df, current_inventory, price, holding_cost_rate) ==
    LET l == financial_locals(df, current_inventory, price, holding_cost_rate)
    IN  [ expected_revenue |-> round(l.expected_revenue, 2),
          expected_sales   |-> round(l.expected_sales, 0),
          total_demand     |-> round(l.total_demand, 0),
          avg_inventory    |-> round(l.avg_inventory, 1),
          holding_cost     |-> round(l.holding_cost, 2),
          gross_profit     |-> round(l.gross_profit, 2),
          profit_margin    |->
              IF RLt(Rat(0, 1), l.expected_revenue)
              THEN round(RMul(RDiv(l.gross_profit, l.expected_revenue),
                              Rat(100, 1)), 1)
              ELSE 0 ]

----------------------------------------------------------------------------
(* InventoryManager.get_item_inventory, get_item_details *)

\* rows of a table that satisfy WHERE item_id = ?
where_item(table, item_id) == SelectSeq(table, LAMBDA row : row.item_id = item_id)

\* SELECT unit FROM inv WHERE item_id = ?  ->  int(...iloc[0]) or None
get_item_inventory(item_id) ==
    LET data == where_item(inv, item_id)
    IN  IF data # <<>> THEN PyInt(data[1].unit) ELSE None

\* {} (no row) is modelled as the record without fields
NoDetails == [x \in {} |-> 0]

get_item_details(item_id) ==
    IF item_id \in DOMAIN item_dim THEN item_dim[item_id] ELSE NoDetails

----------------------------------------------------------------------------
(* InventoryManager.generate_inventory_insights *)

RecUrgent  == "URGENT: Reorder immediately - low inventory coverage"
RecWarning == "WARNING: Consider reordering soon - inventory running low"
RecReorder == "REORDER: Current inventory is at or below reorder point"
RecMargin  == "Consider optimizing inventory levels to improve profit margins"

coverage_recommendation(coverage_info) ==
    IF coverage_info.status = "critical" THEN <<RecUrgent>>
    ELSE IF coverage_info.status = "low" THEN <<RecWarning>>
    ELSE <<>>

\* mutant: strictly below the reorder point
rop_recommendation_strict(current_inventory, rop_info) ==
    IF current_inventory < rop_info.reorder_point THEN <<RecReorder>> ELSE <<>>

rop_recommendation(current_inventory, rop_info) ==
    IF current_inventory <= rop_info.reorder_point THEN <<RecReorder>> ELSE <<>>

\* profit_margin is kept in 1/10 percent: "< 10" is "< 100 tenths"
financial_recommendation(financial_info) ==
    IF financial_info.profit_margin < 10 * Pow10(1) THEN <<RecMargin>> ELSE <<>>

recommendations_of(current_inventory, coverage_info, rop_info, financial_info) ==
    coverage_recommendation(coverage_info)
        \o rop_recommendation(current_inventory, rop_info)
        \o financial_recommendation(financial_info)

generate_inventory_insights(item_id, df) ==
    LET current_inventory == get_item_inventory(item_id)
        item_details      == get_item_details(item_id)
    IN  IF current_inventory = None
        THEN [success |-> FALSE, error |-> "No inventory data found", item_id |-> item_id]
        ELSE IF item_details = NoDetails
        THEN [success |-> FALSE, error |-> "No item details found", item_id |-> item_id]
        ELSE
        LET coverage_info == calculate_coverage_days(df, current_inventory.v)
        IN  IF Raised(coverage_info)       \* except Exception as e
            THEN [success |-> FALSE, error |-> coverage_info.raised, item_id |-> item_id]
            ELSE
            LET rop_info       == calculate_reorder_point(df, item_details.lead_time,
                                                          DefaultSafetyFactor)
                financial_info == calculate_financial_metrics(df, current_inventory.v,
                                      item_details.price, item_details.holding_cost)
            IN  [ success              |-> TRUE,
                  item_id              |-> item_id,
                  item_description     |-> item_details.description,
                  current_inventory    |-> current_inventory.v,
                  item_details         |-> item_details,
                  coverage_analysis    |-> coverage_info,
                  reorder_analysis     |-> rop_info,
                  financial_analysis   |-> financial_info,
                  recommendations      |-> recommendations_of(current_inventory.v,
                                              coverage_info, rop_info, financial_info),
                  forecast_period_days |-> Len(df) ]

----------------------------------------------------------------------------
(* Inputs *)

\* frames of consecutive days with a change of demand after k days, and
\* frames of steady demand with the second calendar day missing
Frames ==
    { ForecastFrame(n, k, a, b, 0) :
        n \in 0..MaxDays, k \in 0..MaxDays, a \in {0, MaxRate}, b \in 0..MaxRate }
    \cup { ForecastFrame(n, 0, 0, b, 1) : n \in 2..MaxDays, b \in 0..MaxRate }

DetailRow(p, l, h) ==
    [ description  |-> "item",
      price        |-> Rat(p, PriceDen),
      lead_time    |-> l,
      holding_cost |-> Rat(h, HoldDen) ]

DetailRows == { DetailRow(p, l, h) : p \in Prices, l \in 0..MaxLead, h \in HoldRates }

Catalog == 1..NItems      \* item ids, in item_id order

Item == SetMin(Catalog)   \* the item of the single-item request

----------------------------------------------------------------------------
(* Single-item analysis: one call of generate_inventory_insights *)

Init ==
    /\ forecast_df \in Frames
    /\ the_item = Item
    /\ inv \in {<<>>} \cup { <<[item_id |-> Item, unit |-> u]>> : u \in 0..MaxInv }
    /\ item_dim \in {NoDetails} \cup [{Item} -> DetailRows]
    /\ insights = None
    /\ sales = <<>>
    /\ predicted = NoDetails
    /\ args = None
    /\ result = None
    /\ all_items = <<>>
    /\ idx = 0
    /\ reorder_analysis = <<>>
    /\ report = None
    /\ stdout = <<>>
    /\ pc = "start"

GenerateInsights ==
    /\ pc = "start"
    /\ insights' = generate_inventory_insights(the_item, forecast_df)
    /\ pc' = "done"
    /\ UNCHANGED <<forecast_df, inv, item_dim, the_item, predicted,
                   all_items, idx, reorder_analysis, report>>
    /\ UNCHANGED <<sales, args, result, stdout>>

Next == GenerateInsights

Spec == Init /\ [][Next]_vars

----------------------------------------------------------------------------
(* Reorder policy: one call of calculate_reorder_point *)

\* short frames around the lead times
RopFrames ==
    { ForecastFrame(n, k, a, b, 0) :
        n \in 0..(MaxLead + 2), k \in 0..(MaxLead + 2), a \in {0, MaxRate}, b \in 0..MaxRate }

\* safety factors from -1/4 to 2, the default 1.25 among them
SafetyFactors == { Rat(n, 4) : n \in -1..8 }

InitRop ==
    /\ forecast_df \in RopFrames
    /\ args \in [lead_time : -1..(MaxLead + 1), safety_factor : SafetyFactors]
    /\ result = None
    /\ the_item = Item
    /\ inv = <<>>
    /\ item_dim = NoDetails
    /\ insights = None
    /\ sales = <<>>
    /\ predicted = NoDetails
    /\ all_items = <<>>
    /\ idx = 0
    /\ reorder_analysis = <<>>
    /\ report = None
    /\ stdout = <<>>
    /\ pc = "rop"

CalculateReorderPoint ==
    /\ pc = "rop"
    /\ result' = calculate_reorder_point(forecast_df, args.lead_time, args.safety_factor)
    /\ pc' = "rop_done"
    /\ UNCHANGED <<forecast_df, inv, item_dim, the_item, insights, sales, predicted,
                   args, all_items, idx, reorder_analysis, report, stdout>>

NextRop == CalculateReorderPoint

SpecRop == InitRop /\ [][NextRop]_vars

----------------------------------------------------------------------------
(* The analyzers on their own: one call of calculate_coverage_days, of *)
(* calculate_reorder_point or of calculate_financial_metrics          *)

\* frames of up to MaxRows rows with any dates: sorted or not, with repeated
\* and with missing days
AnalyzerRow == [ds : FirstDay..(FirstDay + MaxGap), yhat : {0, MaxRate}]

RECURSIVE SeqsUpTo(_, _)
SeqsUpTo(S, n) ==
    IF n = 0 THEN {<<>>}
    ELSE LET shorter == SeqsUpTo(S, n - 1)
         IN  shorter \cup { Append(q, x) : q \in shorter, x \in S }

AnalyzerFrames == SeqsUpTo(AnalyzerRow, MaxRows)

CoverageCalls  == [current_inventory : -1..MaxInv]
RopCalls       == [lead_time : -1..MaxLead, safety_factor : {DefaultSafetyFactor}]
FinancialCalls ==
    [ current_inventory : {1},
      price             : {Rat(-1, 1), Rat(1, 1)},
      holding_cost_rate : {Rat(-1, HoldDen), Rat(1, HoldDen)} ]

\* the financial projection is called on frames with a row at least
InitAnalyzers ==
    /\ forecast_df \in AnalyzerFrames
    /\ \/ pc = "coverage" /\ args \in CoverageCalls
       \/ pc = "rop" /\ args \in RopCalls
       \/ pc = "financial" /\ args \in FinancialCalls /\ forecast_df # <<>>
    /\ result = None
    /\ the_item = Item
    /\ inv = <<>>
    /\ item_dim = NoDetails
    /\ insights = None
    /\ sales = <<>>
    /\ predicted = NoDetails
    /\ all_items = <<>>
    /\ idx = 0
    /\ reorder_analysis = <<>>
    /\ report = None
    /\ stdout = <<>>

CalculateCoverageDays ==
    /\ pc = "coverage"
    /\ result' = calculate_coverage_days(forecast_df, args.current_inventory)
    /\ pc' = "coverage_done"
    /\ UNCHANGED <<forecast_df, inv, item_dim, the_item, insights, sales, predicted,
                   args, all_items, idx, reorder_analysis, report, stdout>>

CalculateFinancialMetrics ==
    /\ pc = "financial"
    /\ result' = calculate_financial_metrics(forecast_df, args.current_inventory,
                                              args.price, args.holding_cost_rate)
    /\ pc' = "financial_done"
    /\ UNCHANGED <<forecast_df, inv, item_dim, the_item, insights, sales, predicted,
                   args, all_items, idx, reorder_analysis, report, stdout>>

NextAnalyzers ==
    \/ CalculateCoverageDays
    \/ CalculateReorderPoint
    \/ CalculateFinancialMetrics

SpecAnalyzers == InitAnalyzers /\ [][NextAnalyzers]_vars

----------------------------------------------------------------------------
(* InventoryManager.process_inventory_request *)

\* the insights, completed with the path of the chart when they succeeded
process_inventory_request(item_id, df) ==
    LET produced == generate_inventory_insights(item_id, df)
    IN  IF ~produced.success
        THEN produced
        ELSE produced @@ [visualization_path |-> "inventory_analysis.png"]

----------------------------------------------------------------------------
(* ForecastingAgent.prepare_forecast_data, generate_forecast *)

SetMax(S) == CHOOSE m \in S : \A x \in S : x <= m

\* SELECT date, SUM(sale) as sales FROM sales WHERE item_id = ?
\* GROUP BY date ORDER BY date
sales_query(item_id) ==
    LET rows  == where_item(sales, item_id)
        dates == {rows[i].date : i \in 1..Len(rows)}
        total(d) == SeqSum([i \in 1..Len(rows) |->
                               IF rows[i].date = d THEN rows[i].sale ELSE 0])
        RECURSIVE group_by(_)
        group_by(D) ==
            IF D = {} THEN <<>>
            ELSE LET d == SetMin(D)
                 IN  <<[date |-> d, sales |-> total(d)]>> \o group_by(D \ {d})
    IN  group_by(dates)

\* pd.date_range(lo, hi, freq="D")
date_range(lo, hi) == [i \in 1..(hi - lo + 1) |-> lo + i - 1]

\* mutant: the history left as the query gives it, missing days not filled
reindex_none(df, full_idx) == df

\* set_index("date").reindex(full_idx).fillna({"sales": 0}).reset_index()
reindex_fillna(df, full_idx) ==
    [i \in 1..Len(full_idx) |->
        LET at == {k \in 1..Len(df) : df[k].date = full_idx[i]}
        IN  [ date  |-> full_idx[i],
              sales |-> IF at = {} THEN 0 ELSE df[SetMin(at)].sales ]]

\* The value is the raised exception (ValueError when the item has no sales
\* rows) or [dfp |-> the history handed to the predictor, columns ds and y].
prepare_forecast_data(item_id) ==
    LET df == sales_query(item_id)
    IN  IF df = <<>> THEN Raise("ValueError")
        ELSE LET dates    == {df[i].date : i \in 1..Len(df)}
                 full_idx == date_range(SetMin(dates), SetMax(dates))
                 filled   == reindex_fillna(df, full_idx)
             IN  [dfp |-> [i \in 1..Len(filled) |->
                              [ds |-> filled[i].date, y |-> filled[i].sales]]]

\* Prophet(...).fit(historical_data): the fit refuses a history of fewer than
\* two rows; the fitted model keeps its history.
create_prophet_model(historical_data) ==
    IF Len(historical_data) < 2 THEN Raise("ValueError")
    ELSE [history |-> historical_data]

\* model.make_future_dataframe(periods=forecast_days, freq="D"): the dates of
\* the history followed by the next forecast_days days
make_future_dataframe(model, periods) ==
    LET history_dates == [i \in 1..Len(model.history) |-> model.history[i].ds]
        last_date     == history_dates[Len(history_dates)]
    IN  history_dates \o [i \in 1..periods |-> last_date + i]

\* model.predict(future).  The predictor is a black box: predicted[item_id] is
\* the curve it gives, `first` on the first `prefix` rows and `rate` afterwards,
\* with the interval [yhat + lower, yhat + upper] around it.
predict(curve, future) ==
    [i \in 1..Len(future) |->
        LET yhat == IF i <= curve.prefix THEN curve.first ELSE curve.rate
        IN  [ ds         |-> future[i],
              yhat       |-> yhat,
              yhat_lower |-> yhat + curve.lower,
              yhat_upper |-> yhat + curve.upper ]]

\* mutant: only the point forecast is clipped
clip_yhat_only(df) ==
    [i \in 1..Len(df) |->
        [df[i] EXCEPT !.yhat = IF df[i].yhat < 0 THEN 0 ELSE df[i].yhat]]

\* forecast[col].clip(lower=0) for col in yhat, yhat_lower, yhat_upper
clip_lower0(df) ==
    LET clip(x) == IF x < 0 THEN 0 ELSE x
    IN  [i \in 1..Len(df) |->
            [df[i] EXCEPT !.yhat       = clip(df[i].yhat),
                          !.yhat_lower = clip(df[i].yhat_lower),
                          !.yhat_upper = clip(df[i].yhat_upper)]]

\* The value is the raised exception or the pair (forecast, model).
\* mutant: a failing predictor yields an empty forecast instead of raising
generate_forecast_swallowing(item_id, forecast_days) ==
    LET historical_data == prepare_forecast_data(item_id)
    IN  IF Raised(historical_data) THEN [forecast_df |-> <<>>, model |-> None]
        ELSE LET model == create_prophet_model(historical_data.dfp)
             IN  IF Raised(model) THEN [forecast_df |-> <<>>, model |-> None]
                 ELSE LET future   == make_future_dataframe(model, forecast_days)
                          forecast == predict(predicted[item_id], future)
                      IN  [forecast_df |-> clip_lower0(forecast), model |-> model]

generate_forecast(item_id, forecast_days) ==
    LET historical_data == prepare_forecast_data(item_id)
    IN  IF Raised(historical_data) THEN historical_data
        ELSE LET model == create_prophet_model(historical_data.dfp)
             IN  IF Raised(model) THEN model
                 ELSE LET future   == make_future_dataframe(model, forecast_days)
                          forecast == predict(predicted[item_id], future)
                      IN  [forecast_df |-> clip_lower0(forecast), model |-> model]

----------------------------------------------------------------------------
(* Single-item forecast and analysis: generate_forecast(item_id, forecast_days) *)
(* followed by generate_inventory_insights                                     *)

\* tables of up to two sales rows of the item, in any storage order
SalesRow == [item_id : {Item}, date : FirstDay..(FirstDay + MaxGap), sale : 1..MaxSale]
SalesTables == {<<>>} \cup { <<r>> : r \in SalesRow } \cup { <<r, q>> : r, q \in SalesRow }

\* curves of the predictor, negative values and crossed intervals among them
Curves ==
    { [prefix |-> 1, first |-> f, rate |-> r, lower |-> l, upper |-> u] :
        f \in {-1, 1}, r \in {-1, 0, MaxRate}, l \in {-MaxRate, 0, 1}, u \in {-1, 0, MaxRate} }

InitForecast ==
    /\ the_item = Item
    /\ sales \in SalesTables
    /\ predicted \in [{Item} -> Curves]
    /\ args \in [forecast_days : 0..MaxHorizon]
    /\ result = None
    /\ forecast_df = <<>>
    /\ inv = <<[item_id |-> Item, unit |-> 1]>>
    /\ item_dim = [i \in {Item} |-> DetailRow(PriceDen, 1, 1)]
    /\ insights = None
    /\ all_items = <<>>
    /\ idx = 0
    /\ reorder_analysis = <<>>
    /\ report = None
    /\ stdout = <<>>
    /\ pc = "forecast"

\* forecast_df, model = generate_forecast(item_id, forecast_days); an exception
\* leaves the caller without a forecast
GenerateForecast ==
    /\ pc = "forecast"
    /\ result' = generate_forecast(the_item, args.forecast_days)
    /\ IF Raised(result')
       THEN /\ pc' = "forecast_error"
            /\ UNCHANGED forecast_df
       ELSE /\ pc' = "start"
            /\ forecast_df' = result'.forecast_df
    /\ UNCHANGED <<inv, item_dim, the_item, insights, sales, predicted, args,
                   all_items, idx, reorder_analysis, report, stdout>>

NextForecast ==
    \/ GenerateForecast
    \/ GenerateInsights

SpecForecast == InitForecast /\ [][NextForecast]_vars

----------------------------------------------------------------------------
(* ForecastingAgent.process_forecast_request, step by step *)

RequestCurves == { c \in Curves : c.lower = 0 /\ c.upper = MaxRate }

InitRequest ==
    /\ the_item = Item
    /\ sales \in SalesTables
    /\ predicted \in [{Item} -> RequestCurves]
    /\ args \in [forecast_days : 0..MaxHorizon, include_inventory_analysis : BOOLEAN]
    /\ result = None
    /\ forecast_df = <<>>
    /\ inv = <<[item_id |-> Item, unit |-> 1]>>
    /\ item_dim = [i \in {Item} |-> DetailRow(PriceDen, 1, 1)]
    /\ insights = None
    /\ all_items = <<>>
    /\ idx = 0
    /\ reorder_analysis = <<>>
    /\ report = None
    /\ stdout = <<>>
    /\ pc = "request"

\* the dict of the outer except clause
forecast_error(e) == [success |-> FALSE, error |-> e]

\* generate_forecast and the result dict; an exception goes to the outer except
RequestForecast ==
    /\ pc = "request"
    /\ LET produced == generate_forecast(the_item, args.forecast_days)
       IN  IF Raised(produced)
           THEN /\ result' = forecast_error(produced.raised)
                /\ pc' = "request_failed"
                /\ UNCHANGED forecast_df
           ELSE /\ forecast_df' = produced.forecast_df
                /\ result' = [ success            |-> TRUE,
                               item_id            |-> the_item,
                               forecast_days      |-> args.forecast_days,
                               forecast_data      |-> produced.forecast_df,
                               inventory_analysis |-> None ]
                /\ pc' = "request_forecasted"
    /\ UNCHANGED <<inv, item_dim, the_item, insights, sales, predicted, args,
                   all_items, idx, reorder_analysis, report, stdout>>

\* writing the chart or the parquet file raises: the outer except answers
RequestArtifactFails ==
    /\ pc = "request_forecasted"
    /\ result' = forecast_error("OSError")
    /\ pc' = "request_failed"
    /\ UNCHANGED <<forecast_df, inv, item_dim, the_item, insights, sales, predicted,
                   args, all_items, idx, reorder_analysis, report, stdout>>

\* include_inventory_analysis: process_inventory_request on the forecast
RequestInventoryAnalysis ==
    /\ pc = "request_forecasted"
    /\ args.include_inventory_analysis
    /\ insights' = process_inventory_request(the_item, forecast_df)
    /\ result' = [result EXCEPT !.inventory_analysis = insights']
    /\ pc' = "request_done"
    /\ UNCHANGED <<forecast_df, inv, item_dim, the_item, sales, predicted, args,
                   all_items, idx, reorder_analysis, report, stdout>>

\* include_inventory_analysis is false, or the import fails (ImportError: pass)
RequestWithoutAnalysis ==
    /\ pc = "request_forecasted"
    /\ pc' = "request_done"
    /\ UNCHANGED <<forecast_df, inv, item_dim, the_item, insights, sales, predicted,
                   args, result, all_items, idx, reorder_analysis, report, stdout>>

NextRequest ==
    \/ RequestForecast
    \/ RequestArtifactFails
    \/ RequestInventoryAnalysis
    \/ RequestWithoutAnalysis

SpecRequest == InitRequest /\ [][NextRequest]_vars

----------------------------------------------------------------------------
(* find_items_to_reorder *)

ForecastDays == 30      \* generate_forecast(item_id, 30)

\* SELECT item_id FROM inv ORDER BY item_id
RECURSIVE sorted_ids(_)
sorted_ids(S) ==
    IF S = {} THEN <<>>
    ELSE LET m == SetMin(S) IN <<m>> \o sorted_ids(S \ {m})

\* mutant: the same query without ORDER BY, item ids in storage order
inventory_query_unordered(table) == [i \in 1..Len(table) |-> table[i].item_id]

\* ORDER BY item_id: the ids of the column in ascending order, one per row
RECURSIVE order_by_item_id(_)
order_by_item_id(ids) ==
    IF ids = <<>> THEN <<>>
    ELSE LET m == SetMin({ids[i] : i \in 1..Len(ids)})
             k == CHOOSE i \in 1..Len(ids) : ids[i] = m
         IN  <<m>> \o order_by_item_id(SubSeq(ids, 1, k - 1) \o SubSeq(ids, k + 1, Len(ids)))

\* mutant: every row of the table comes back twice
inventory_query_repeating(table) ==
    LET column == [i \in 1..Len(table) |-> table[i].item_id]
    IN  order_by_item_id(column \o column)

\* SELECT item_id FROM inv ORDER BY item_id
inventory_query(table) == order_by_item_id([i \in 1..Len(table) |-> table[i].item_id])

coverage_urgency(coverage_info) ==
    IF coverage_info.status = "critical"
    THEN [score |-> 100,
          reasons |-> <<[reason |-> "CRITICAL", days |-> coverage_info.coverage_days.v]>>]
    ELSE IF coverage_info.status = "low"
    THEN [score |-> 50,
          reasons |-> <<[reason |-> "LOW", days |-> coverage_info.coverage_days.v]>>]
    ELSE [score |-> 0, reasons |-> <<>>]

rop_urgency(current_inventory, rop_info) ==
    IF current_inventory <= rop_info.reorder_point
    THEN [score |-> 75,
          reasons |-> <<[reason |-> "Below ROP", current_inventory |-> current_inventory,
                         reorder_point |-> rop_info.reorder_point]>>]
    ELSE [score |-> 0, reasons |-> <<>>]

\* mutant: a low margin costs 30 points
margin_urgency_heavy(financial_info) ==
    IF financial_info.profit_margin < 10 * Pow10(1)
    THEN [score |-> -30,
          reasons |-> <<[reason |-> "Low margin", margin |-> financial_info.profit_margin]>>]
    ELSE [score |-> 0, reasons |-> <<>>]

\* mutant: a low margin raises the priority
margin_urgency_raising(financial_info) ==
    IF financial_info.profit_margin < 10 * Pow10(1)
    THEN [score |-> 20,
          reasons |-> <<[reason |-> "Low margin", margin |-> financial_info.profit_margin]>>]
    ELSE [score |-> 0, reasons |-> <<>>]

margin_urgency(financial_info) ==
    IF financial_info.profit_margin < 10 * Pow10(1)
    THEN [score |-> -20,
          reasons |-> <<[reason |-> "Low margin", margin |-> financial_info.profit_margin]>>]
    ELSE [score |-> 0, reasons |-> <<>>]

\* the entry appended for a successfully analysed item
priority_entry(item_id, inventory_insights) ==
    LET coverage_info     == inventory_insights.coverage_analysis
        rop_info          == inventory_insights.reorder_analysis
        financial_info    == inventory_insights.financial_analysis
        current_inventory == inventory_insights.current_inventory
        c == coverage_urgency(coverage_info)
        r == rop_urgency(current_inventory, rop_info)
        m == margin_urgency(financial_info)
    IN  [ item_id           |-> item_id,
          description       |-> inventory_insights.item_details.description,
          current_inventory |-> current_inventory,
          coverage_days     |-> coverage_info.coverage_days,
          coverage_status   |-> coverage_info.status,
          reorder_point     |-> rop_info.reorder_point,
          below_rop         |-> current_inventory <= rop_info.reorder_point,
          expected_revenue  |-> financial_info.expected_revenue,
          profit_margin     |-> financial_info.profit_margin,
          urgency_score     |-> c.score + r.score + m.score,
          urgency_reasons   |-> c.reasons \o r.reasons \o m.reasons,
          recommendations   |-> inventory_insights.recommendations ]

\* list.sort(key=urgency_score, reverse=True): stable, equal keys keep their order
RECURSIVE insert_desc(_, _)
insert_desc(sorted, x) ==
    IF sorted = <<>> THEN <<x>>
    ELSE IF Head(sorted).urgency_score >= x.urgency_score
         THEN <<Head(sorted)>> \o insert_desc(Tail(sorted), x)
         ELSE <<x>> \o sorted

RECURSIVE sort_insert(_, _)
sort_insert(done, rest) ==
    IF rest = <<>> THEN done
    ELSE sort_insert(insert_desc(done, Head(rest)), Tail(rest))

\* mutant: ascending by urgency_score
RECURSIVE insert_asc(_, _)
insert_asc(sorted, x) ==
    IF sorted = <<>> THEN <<x>>
    ELSE IF Head(sorted).urgency_score <= x.urgency_score
         THEN <<Head(sorted)>> \o insert_asc(Tail(sorted), x)
         ELSE <<x>> \o sorted

RECURSIVE sort_insert_asc(_, _)
sort_insert_asc(done, rest) ==
    IF rest = <<>> THEN done
    ELSE sort_insert_asc(insert_asc(done, Head(rest)), Tail(rest))

sort_by_urgency_ascending(entries) == sort_insert_asc(<<>>, entries)

\* mutant: sorted ascending and then reversed, which turns round equal keys
sort_by_urgency_reversing(entries) ==
    LET up == sort_insert_asc(<<>>, entries)
    IN  [i \in 1..Len(up) |-> up[Len(up) + 1 - i]]

sort_by_urgency(entries) == sort_insert(<<>>, entries)

\* mutant: the medium bucket without its lower bound
priority_buckets_overlapping(entries) ==
    [ high_priority   |-> SelectSeq(entries, LAMBDA e : e.urgency_score >= 75),
      medium_priority |-> SelectSeq(entries, LAMBDA e : e.urgency_score < 75),
      low_priority    |-> SelectSeq(entries, LAMBDA e : e.urgency_score < 25) ]

priority_buckets(entries) ==
    [ high_priority   |-> SelectSeq(entries, LAMBDA e : e.urgency_score >= 75),
      medium_priority |-> SelectSeq(entries, LAMBDA e :
                              25 <= e.urgency_score /\ e.urgency_score < 75),
      low_priority    |-> SelectSeq(entries, LAMBDA e : e.urgency_score < 25) ]

\* What results_string says: the number of items found, the buckets and the
\* summary statistics.
results_string(items, entries) ==
    LET buckets == priority_buckets(entries)
    IN  [ found           |-> Len(items),
          high_priority   |-> buckets.high_priority,
          medium_priority |-> buckets.medium_priority,
          low_priority    |-> buckets.low_priority,
          summary         |-> [ high   |-> Len(buckets.high_priority),
                                medium |-> Len(buckets.medium_priority),
                                low    |-> Len(buckets.low_priority) ] ]

\* the inventory query succeeds: the item ids, in item_id order
QueryItems ==
    /\ pc = "query"
    /\ all_items' = inventory_query(inv)
    /\ idx' = 1
    /\ pc' = "loop"
    /\ UNCHANGED <<forecast_df, inv, item_dim, the_item, insights, predicted,
                   reorder_analysis, report>>
    /\ UNCHANGED <<sales, args, result, stdout>>

\* the inventory query fails: the error message is returned
QueryFails ==
    /\ pc = "query"
    /\ pc' = "query_error"
    /\ UNCHANGED <<forecast_df, inv, item_dim, the_item, insights, predicted,
                   all_items, idx, reorder_analysis, report>>
    /\ UNCHANGED <<sales, args, result, stdout>>

\* One pass of the loop body for all_items[idx].  generate_forecast raising is
\* caught and the error is printed; the error of unsuccessful insights is
\* printed; otherwise the item's entry is appended.
AnalyzeItem ==
    /\ pc = "loop" /\ idx <= Len(all_items)
    /\ LET item_id == all_items[idx]
           f       == generate_forecast(item_id, ForecastDays)
       IN  IF Raised(f)
           THEN /\ stdout' = Append(stdout, [item_id |-> item_id, error |-> f.raised])
                /\ UNCHANGED <<forecast_df, insights, reorder_analysis>>
           ELSE LET inventory_insights ==
                        generate_inventory_insights(item_id, f.forecast_df)
                IN  /\ UNCHANGED <<forecast_df, insights>>
                    /\ IF inventory_insights.success
                       THEN /\ reorder_analysis' =
                                   Append(reorder_analysis,
                                          priority_entry(item_id, inventory_insights))
                            /\ UNCHANGED stdout
                       ELSE /\ stdout' = Append(stdout,
                                   [item_id |-> item_id,
                                    error   |-> inventory_insights.error])
                            /\ UNCHANGED reorder_analysis
    /\ idx' = idx + 1
    /\ UNCHANGED <<inv, item_dim, the_item, predicted, all_items, report, pc>>
    /\ UNCHANGED <<sales, args, result>>

\* after the loop, nothing analysed: the message is returned
NoAnalyses ==
    /\ pc = "loop" /\ idx > Len(all_items)
    /\ reorder_analysis = <<>>
    /\ pc' = "no_analyses"
    /\ UNCHANGED <<forecast_df, inv, item_dim, the_item, insights, predicted,
                   all_items, idx, reorder_analysis, report>>
    /\ UNCHANGED <<sales, args, result, stdout>>

\* after the loop: sort, bucket, build the report
SortAndReport ==
    /\ pc = "loop" /\ idx > Len(all_items)
    /\ reorder_analysis # <<>>
    /\ reorder_analysis' = sort_by_urgency(reorder_analysis)
    /\ report' = results_string(all_items, reorder_analysis')
    /\ pc' = "reported"
    /\ UNCHANGED <<forecast_df, inv, item_dim, the_item, insights, predicted,
                   all_items, idx>>
    /\ UNCHANGED <<sales, args, result, stdout>>

\* Inputs of the ranker: every item of the catalog has one row in inv (in any
\* storage order), may lack its item_dim row and may lack sales rows; its
\* predicted demand is none for k days and one unit a day afterwards.
RankerPrefixes == {0, 8, 15}
RankerRows     == { DetailRow(PriceDen, 0, 0), DetailRow(PriceDen, 15, 1) }

\* the curve of the ranker's items: nothing for `prefix` days, then one unit a day
RankerCurve(k) == [prefix |-> k, first |-> 0, rate |-> YDen, lower |-> 0, upper |-> 0]

\* the sales rows of the catalog: for every item a sale of one unit on the
\* first and on the last of HistDays days
CatalogSales ==
    [k \in 1..(2 * NItems) |->
        [ item_id |-> (k + 1) \div 2,
          date    |-> IF k % 2 = 1 THEN FirstDay ELSE FirstDay + HistDays - 1,
          sale    |-> 1 ]]

InitRanker ==
    /\ \E order \in {sorted_ids(Catalog), [i \in 1..NItems |-> NItems + 1 - i]} :
          inv = [i \in 1..NItems |-> [item_id |-> order[i], unit |-> 1]]
    /\ \E present \in SUBSET Catalog : item_dim \in [present -> RankerRows]
    /\ \E sold \in SUBSET Catalog :
          /\ sales = SelectSeq(CatalogSales, LAMBDA row : row.item_id \in sold)
          /\ predicted \in [Catalog -> {RankerCurve(k) : k \in RankerPrefixes}]
          /\ \A i \in Catalog \ sold : predicted[i] = RankerCurve(0)
    /\ forecast_df = <<>>
    /\ the_item = Item
    /\ insights = None
    /\ args = None
    /\ result = None
    /\ all_items = <<>>
    /\ idx = 0
    /\ reorder_analysis = <<>>
    /\ report = None
    /\ stdout = <<>>
    /\ pc = "query"

NextRanker ==
    \/ QueryItems
    \/ QueryFails
    \/ AnalyzeItem
    \/ NoAnalyses
    \/ SortAndReport

SpecRanker == InitRanker /\ [][NextRanker]_vars

----------------------------------------------------------------------------
(* find_items_to_reorder over an inv table of one or two rows: the first    *)
(* row is of Item with any stock, item_dim row and predicted demand; the    *)
(* second, if any, is of Item again or of another item                      *)

Other == Item + 1

RowsOfItem == { DetailRow(PriceDen, l, h) : l \in {0, MaxDays - 1}, h \in HoldRates }

InitRankerRows ==
    /\ \E u \in 0..MaxInv :
       \E extra \in { <<>>, <<[item_id |-> Item, unit |-> 1]>>,
                            <<[item_id |-> Other, unit |-> 1]>> } :
          inv = <<[item_id |-> Item, unit |-> u]>> \o extra
    /\ \E present \in {{Other}, {Item, Other}} :
          /\ item_dim \in [present -> RowsOfItem]
          /\ item_dim[Other] = DetailRow(PriceDen, 0, 0)
    /\ \E sold \in SUBSET {Item, Other} :
          /\ sales = SelectSeq(CatalogSales, LAMBDA row : row.item_id \in sold)
          /\ predicted \in [{Item, Other} -> {RankerCurve(k) : k \in 0..(MaxDays - 1)}]
          /\ predicted[Other] = RankerCurve(0)
          /\ Item \notin sold => predicted[Item] = RankerCurve(0)
    /\ forecast_df = <<>>
    /\ the_item = Item
    /\ insights = None
    /\ args = None
    /\ result = None
    /\ all_items = <<>>
    /\ idx = 0
    /\ reorder_analysis = <<>>
    /\ report = None
    /\ stdout = <<>>
    /\ pc = "query"

SpecRankerRows == InitRankerRows /\ [][NextRanker]_vars

\* for item in all_items: the loop passes to the next item, whatever the
\* analysis of the current one gives
LoopVisit == pc = "loop" /\ idx <= Len(all_items) /\ idx' = idx + 1

\* The run is not interrupted: the query is made, the loop keeps passing to
\* the next item while one is left, and the report (or the early return)
\* follows the loop.
SpecRankerRowsFair ==
    /\ SpecRankerRows
    /\ WF_vars(QueryItems \/ QueryFails)
    /\ WF_idx(LoopVisit)
    /\ WF_vars(NoAnalyses)
    /\ WF_vars(SortAndReport)

----------------------------------------------------------------------------
(* Vocabulary of the properties *)

\* the analysis of the single-item request returned a successful result
Analysed == pc = "done" /\ insights.success

on_hand   == insights.current_inventory
coverage  == insights.coverage_analysis
reorder   == insights.reorder_analysis
financial == insights.financial_analysis
details   == insights.item_details
Horizon   == Len(forecast_df)

\* one row per consecutive calendar day
Consecutive(df) == \A i \in 1..(Len(df) - 1) : df[i + 1].ds = df[i].ds + 1

\* demand of the first i forecast days, in 1/YDen units
RECURSIVE DemandThrough(_, _)
DemandThrough(df, i) == IF i = 0 THEN 0 ELSE DemandThrough(df, i - 1) + df[i].yhat

\* the stock u is used up by the end of day i (1-based)
Exhausted(df, u, i) == DemandThrough(df, i) >= u * YDen

\* day i (1-based) is the first day by whose end the stock u is used up
FirstExhausted(df, u, i) ==
    /\ Exhausted(df, u, i)
    /\ \A j \in 1..(i - 1) : ~Exhausted(df, u, j)

NeverExhausted(df, u) == \A i \in 1..Len(df) : ~Exhausted(df, u, i)

----------------------------------------------------------------------------
(* C1 *)

\* C1: for a forecast of consecutive days and on_hand > 0, if cumulative demand
\* reaches on_hand at some day, coverage_days is the 0-based index of the first
\* such day and cover_until is that day's date.
C1_CoverageIndex ==
    (Analysed /\ Consecutive(forecast_df) /\ on_hand > 0) =>
        \A i \in 1..Horizon :
            FirstExhausted(forecast_df, on_hand, i) =>
                /\ coverage.coverage_days = PyInt(i - 1)
                /\ coverage.cover_until = strftime(forecast_df[i].ds)

\* the scenario of the spec at the model's scale: constant demand of one unit
\* a day, stock of 3, cumulative 1, 2, 3 reaches the stock at index 2
C1_Witness ==
    /\ Analysed /\ Consecutive(forecast_df) /\ on_hand = 3
    /\ Horizon = MaxDays
    /\ \A i \in 1..Horizon : forecast_df[i].yhat = YDen
    /\ coverage.coverage_days = PyInt(2)
    /\ coverage.cover_until = strftime(FirstDay + 2)

----------------------------------------------------------------------------
(* C2 *)

\* C2: the status is one of sufficient, critical, low, adequate; when stock is
\* exhausted inside the horizon it is critical iff coverage_days <= 7, low iff
\* 8 <= coverage_days <= 14, adequate iff coverage_days > 14; it is sufficient
\* iff cumulative demand never reaches on_hand.
C2_Status ==
    Analysed =>
        /\ coverage.status \in {"sufficient", "critical", "low", "adequate"}
        /\ (coverage.status = "sufficient") <=> NeverExhausted(forecast_df, on_hand)
        /\ ~NeverExhausted(forecast_df, on_hand) =>
              /\ IsInt(coverage.coverage_days)
              /\ (coverage.status = "critical") <=> coverage.coverage_days.v <= 7
              /\ (coverage.status = "low") <=>
                    (8 <= coverage.coverage_days.v /\ coverage.coverage_days.v <= 14)
              /\ (coverage.status = "adequate") <=> coverage.coverage_days.v > 14

C2_Witness ==
    /\ Analysed
    /\ coverage.status = "low"
    /\ coverage.coverage_days = PyInt(8)

----------------------------------------------------------------------------
(* C3 *)

\* C3: when cumulative demand never reaches on_hand the status is sufficient,
\* there is no exhaustion date, coverage_days is the text ">n" for a forecast of
\* n rows and not an integer, and remaining inventory is on_hand minus the total
\* forecast demand; an exhaustion date is present exactly when coverage_days is
\* an integer.
C3_Sufficient ==
    Analysed =>
        /\ NeverExhausted(forecast_df, on_hand) =>
              /\ coverage.status = "sufficient"
              /\ coverage.cover_until = None
              /\ ~IsInt(coverage.coverage_days)
              /\ coverage.coverage_days = PyStr(<<">", Horizon>>)
              /\ REq(coverage.remaining_inventory,
                     [num |-> on_hand * YDen - DemandThrough(forecast_df, Horizon),
                      den |-> YDen])
        /\ (coverage.cover_until # None) <=> IsInt(coverage.coverage_days)

\* stock outlives a forecast with demand on every day, something remains
C3_Witness ==
    /\ Analysed
    /\ Horizon >= 3
    /\ \A i \in 1..Horizon : forecast_df[i].yhat > 0
    /\ coverage.status = "sufficient"
    /\ coverage.remaining_inventory.num > 0
    /\ coverage.remaining_inventory.num < on_hand * coverage.remaining_inventory.den

----------------------------------------------------------------------------
(* C4 *)

\* the lead-time demand the claim describes, at full precision
C4_Expected(df, lead) ==
    IF Len(df) >= lead
    THEN [num |-> DemandThrough(df, lead), den |-> YDen]
    ELSE [num |-> DemandThrough(df, Len(df)) * lead, den |-> YDen * Len(df)]

\* C4: lead_time_demand is the sum of expected demand over the first lead_time
\* forecast days when the forecast has at least lead_time rows, and otherwise
\* the mean daily demand of the whole forecast times lead_time; the result
\* reports it rounded to a whole number.
C4_LeadTimeDemand ==
    Analysed =>
        LET e == C4_Expected(forecast_df, details.lead_time)
        IN  /\ REq(lead_time_demand(forecast_df, details.lead_time), e)
            /\ reorder.lead_time_demand = RoundHalfEven(e.num, e.den)

\* a forecast shorter than the lead time: the extrapolation exceeds the
\* truncated sum
C4_Witness ==
    /\ Analysed
    /\ Horizon < details.lead_time
    /\ reorder.lead_time_demand * YDen > DemandThrough(forecast_df, Horizon)
    /\ reorder.lead_time_demand * YDen * Horizon
           = DemandThrough(forecast_df, Horizon) * details.lead_time

----------------------------------------------------------------------------
(* C5 *)

TotalDemand == [num |-> DemandThrough(forecast_df, Horizon), den |-> YDen]

\* min(on_hand, total forecast demand), at full precision
CappedSales ==
    IF on_hand * YDen <= DemandThrough(forecast_df, Horizon)
    THEN [num |-> on_hand, den |-> 1] ELSE TotalDemand

----------------------------------------------------------------------------
(* C6 *)

\* C6: in every returned projection, expected_revenue = 0 implies
\* profit_margin = 0.
C6_ZeroRevenueZeroMargin ==
    Analysed => (financial.expected_revenue = 0 => financial.profit_margin = 0)

----------------------------------------------------------------------------
(* C7 *)

\* projected stock at the end of day i, in 1/YDen units
ProjectedInventory(df, u, i) ==
    IF u * YDen - DemandThrough(df, i) > 0 THEN u * YDen - DemandThrough(df, i) ELSE 0

\* C7: projected inventory of a day is max(on_hand - cumulative demand, 0),
\* average on-hand is its mean over the forecast days, holding cost is average
\* on-hand x holding_cost_rate x number of days, gross profit is expected
\* revenue - holding cost; the result reports them rounded (1, 2 and 2 decimals).
C7_HoldingCost ==
    Analysed =>
        LET projected  == [i \in 1..Horizon |->
                              ProjectedInventory(forecast_df, on_hand, i)]
            total      == SeqSum(projected)
            \* average on-hand x rate x days, as a fraction
            holdingNum == total * details.holding_cost.num * Horizon
            holdingDen == YDen * Horizon * details.holding_cost.den
            capped     == CappedSales
            revenueNum == capped.num * details.price.num
            revenueDen == capped.den * details.price.den
        IN  /\ inventory_col(forecast_df, on_hand) = projected
            /\ financial.avg_inventory = RoundHalfEven(total * 10, YDen * Horizon)
            /\ financial.holding_cost = RoundHalfEven(holdingNum * 100, holdingDen)
            /\ financial.gross_profit =
                   RoundHalfEven((revenueNum * holdingDen - holdingNum * revenueDen) * 100,
                                 revenueDen * holdingDen)

\* stock runs out before the end of the horizon (the clip acts) and there is
\* a holding cost and a revenue
C7_Witness ==
    /\ Analysed
    /\ on_hand * YDen < DemandThrough(forecast_df, Horizon)
    /\ financial.avg_inventory > 0
    /\ financial.holding_cost > 0
    /\ financial.expected_revenue > 0
    /\ financial.gross_profit = financial.expected_revenue - financial.holding_cost

----------------------------------------------------------------------------
(* C8 *)

\* the trigger of each recommendation, on the analysis results
C8_Trigger(rec) ==
    IF rec = RecUrgent THEN coverage.status = "critical"
    ELSE IF rec = RecWarning THEN coverage.status = "low"
    ELSE IF rec = RecReorder THEN on_hand <= reorder.reorder_point
    ELSE financial.profit_margin < 100     \* below 10 percent, in 1/10 percent

\* C8: the recommendations are, in the order coverage, reorder point, margin,
\* exactly the entries whose trigger holds; the two coverage entries never
\* appear together.
C8_Recommendations ==
    Analysed =>
        /\ insights.recommendations =
               SelectSeq(<<RecUrgent, RecWarning, RecReorder, RecMargin>>, C8_Trigger)
        /\ ~(\E i, j \in 1..Len(insights.recommendations) :
                /\ insights.recommendations[i] = RecUrgent
                /\ insights.recommendations[j] = RecWarning)

\* all three kinds present, and the equality case of the reorder-point trigger
C8_Witness ==
    /\ Analysed
    /\ insights.recommendations = <<RecUrgent, RecReorder, RecMargin>>
    /\ on_hand = reorder.reorder_point

----------------------------------------------------------------------------
(* C9 *)

\* the terms of the urgency score that apply to an entry, in the order
\* coverage, reorder point, margin: <<points, name of the reason>>
C9_Terms(e) ==
    (IF e.coverage_status = "critical" THEN << <<100, "CRITICAL">> >>
     ELSE IF e.coverage_status = "low" THEN << <<50, "LOW">> >> ELSE <<>>)
    \o (IF e.current_inventory <= e.reorder_point THEN << <<75, "Below ROP">> >> ELSE <<>>)
    \o (IF e.profit_margin < 100 THEN << <<-20, "Low margin">> >> ELSE <<>>)

\* the inputs of an item: its stock, its details and its predicted demand
C9_Inputs(item_id) ==
    <<get_item_inventory(item_id), get_item_details(item_id), predicted[item_id]>>

\* C9: the urgency score of every entry is the sum of the terms that apply
\* (100 critical, else 50 low; 75 at or below the reorder point; -20 margin
\* below 10 percent), with one reason per applying term in that order; entries
\* of items with equal inputs have equal scores and reasons, wherever they
\* stand in the list.
C9_UrgencyScore ==
    \A i \in 1..Len(reorder_analysis) :
        LET e     == reorder_analysis[i]
            terms == C9_Terms(e)
        IN  /\ e.urgency_score = SeqSum([t \in 1..Len(terms) |-> terms[t][1]])
            /\ Len(e.urgency_reasons) = Len(terms)
            /\ \A t \in 1..Len(terms) : e.urgency_reasons[t].reason = terms[t][2]
            /\ e.below_rop = (e.current_inventory <= e.reorder_point)
            /\ \A j \in 1..Len(reorder_analysis) :
                  C9_Inputs(reorder_analysis[j].item_id) = C9_Inputs(e.item_id) =>
                      /\ reorder_analysis[j].urgency_score = e.urgency_score
                      /\ reorder_analysis[j].urgency_reasons = e.urgency_reasons

\* an entry with all three terms (50 + 75 - 20), one with the margin term
\* alone and one without any term
C9_Witness ==
    /\ pc = "reported"
    /\ \E i, j, k \in 1..Len(reorder_analysis) :
          /\ reorder_analysis[i].urgency_score = 105
          /\ Len(reorder_analysis[i].urgency_reasons) = 3
          /\ reorder_analysis[j].urgency_score = -20
          /\ reorder_analysis[k].urgency_score = 0
          /\ reorder_analysis[k].urgency_reasons = <<>>

----------------------------------------------------------------------------
(* C10 *)

\* C10: the ranked list is ordered by urgency_score descending, and entries
\* with equal urgency_score appear in ascending item_id order.
C10_Ranked ==
    pc = "reported" =>
        \A i, j \in 1..Len(reorder_analysis) :
            i < j =>
                /\ reorder_analysis[i].urgency_score >= reorder_analysis[j].urgency_score
                /\ reorder_analysis[i].urgency_score = reorder_analysis[j].urgency_score
                      => reorder_analysis[i].item_id <= reorder_analysis[j].item_id

\* inv stored in descending item_id order; the sort moves the first item
\* behind two items that tie on a higher score
C10_Witness ==
    /\ pc = "reported"
    /\ inv[1].item_id > inv[2].item_id
    /\ Len(reorder_analysis) = 3
    /\ reorder_analysis[1].item_id = 2
    /\ reorder_analysis[2].item_id = 3
    /\ reorder_analysis[3].item_id = 1
    /\ reorder_analysis[1].urgency_score = reorder_analysis[2].urgency_score
    /\ reorder_analysis[2].urgency_score > reorder_analysis[3].urgency_score

----------------------------------------------------------------------------
(* C11 *)

InBucket(bucket, e) == \E k \in 1..Len(bucket) : bucket[k] = e

\* C11: the report's buckets partition the ranked list: every ranked entry is
\* in exactly one of high (score >= 75), medium (25 <= score < 75) and low
\* (score < 25), the buckets hold ranked entries only, and the three bucket
\* sizes of the summary add up to the number of ranked entries.
C11_BucketsPartition ==
    pc = "reported" =>
        /\ \A i \in 1..Len(reorder_analysis) :
              LET e == reorder_analysis[i]
              IN  /\ InBucket(report.high_priority, e) <=> e.urgency_score >= 75
                  /\ InBucket(report.medium_priority, e) <=>
                         (25 <= e.urgency_score /\ e.urgency_score < 75)
                  /\ InBucket(report.low_priority, e) <=> e.urgency_score < 25
                  /\ Cardinality({b \in {"high_priority", "medium_priority",
                                         "low_priority"} : InBucket(report[b], e)}) = 1
        /\ \A b \in {"high_priority", "medium_priority", "low_priority"} :
              \A k \in 1..Len(report[b]) : InBucket(reorder_analysis, report[b][k])
        /\ report.summary.high = Len(report.high_priority)
        /\ report.summary.medium = Len(report.medium_priority)
        /\ report.summary.low = Len(report.low_priority)
        /\ report.summary.high + report.summary.medium + report.summary.low
               = Len(reorder_analysis)

\* one entry in each bucket
C11_Witness ==
    /\ pc = "reported"
    /\ report.summary = [high |-> 1, medium |-> 1, low |-> 1]
    /\ report.medium_priority[1].urgency_score = 50

----------------------------------------------------------------------------
(* C12 *)

\* the items of the catalog whose analysis cannot fail: they have sales rows
\* and an item_dim row (every item has its inv row)
C12_Sound == {i \in Catalog : where_item(sales, i) # <<>> /\ i \in DOMAIN item_dim}

RankedIds  == {reorder_analysis[k].item_id : k \in 1..Len(reorder_analysis)}
SkippedIds == {stdout[k].item_id : k \in 1..Len(stdout)}

\* C12 (first part): a failure while analysing one item does not abort the
\* run: when the loop has ended every sound item has its entry, every other
\* item has been skipped with a printed message, and the run goes on to the
\* ranking whenever one item at least was analysed.
C12_OthersRanked ==
    /\ (pc = "loop" /\ idx > Len(all_items)) \/ pc \in {"reported", "no_analyses"}
          => /\ RankedIds = C12_Sound
             /\ SkippedIds = Catalog \ C12_Sound
             /\ Len(reorder_analysis) + Len(stdout) = Len(all_items)
    /\ pc = "no_analyses" => C12_Sound = {}

\* C12: a failure while analysing one item does not abort the run, all other
\* items are analysed and ranked, and the final report records how many items
\* were skipped and why.
C12_SkipsReported ==
    /\ C12_OthersRanked
    /\ (pc = "reported" /\ stdout # <<>>) =>
          /\ "skipped" \in DOMAIN report
          /\ report.skipped = stdout

\* three items, the forecast of one raises: two ranked entries and one
\* printed message
C12_Witness ==
    /\ pc = "reported"
    /\ Len(all_items) = 3
    /\ Len(reorder_analysis) = 2
    /\ stdout = <<[item_id |-> 2, error |-> "ValueError"]>>

----------------------------------------------------------------------------
(* C13 *)

\* coverage_days x is at most coverage_days y, the text ">n" standing above
\* every integer
CoverageLeq(x, y) == IsStr(y) \/ (IsInt(x) /\ IsInt(y) /\ x.v <= y.v)

StatusRank(status) ==
    IF status = "critical" THEN 0
    ELSE IF status = "low" THEN 1
    ELSE IF status = "adequate" THEN 2 ELSE 3

\* C13: for a fixed forecast, calculate_coverage_days is monotone in on_hand:
\* for every stock a <= on_hand, coverage_days(a) <= coverage_days(on_hand),
\* the text ">n" standing above every integer, and the status of on_hand is
\* not nearer to critical than the status of a.
C13_Monotone ==
    Analysed =>
        \A a \in 0..on_hand :
            LET lower == calculate_coverage_days(forecast_df, a)
            IN  /\ CoverageLeq(lower.coverage_days, coverage.coverage_days)
                /\ StatusRank(lower.status) <= StatusRank(coverage.status)

\* the same forecast is critical for a stock of 1, low for a stock of 3 and
\* outlived by a stock of 4
C13_Witness ==
    /\ Analysed
    /\ on_hand = 4
    /\ coverage.status = "sufficient"
    /\ calculate_coverage_days(forecast_df, 1).status = "critical"
    /\ calculate_coverage_days(forecast_df, 1).coverage_days.v > 0
    /\ calculate_coverage_days(forecast_df, 3).status = "low"

----------------------------------------------------------------------------
(* C14 *)

\* C14: in every result of calculate_reorder_point, for forecasts of
\* non-negative demand, every lead time and every safety factor (below 1
\* included), safety_stock <= reorder_point, where safety_stock is
\* lead_time_demand x (safety_factor - 1) and reorder_point is
\* lead_time_demand x safety_factor, both reported rounded to whole units;
\* the safety factor defaults to 1.25.
C14_SafetyBelowRop ==
    /\ REq(DefaultSafetyFactor, [num |-> 125, den |-> 100])
    /\ (pc = "rop_done" /\ ~Raised(result)) =>
          LET ltd == lead_time_demand(forecast_df, args.lead_time)
              sf  == args.safety_factor
          IN  /\ result.safety_stock <= result.reorder_point
              /\ result.safety_factor = sf
              /\ result.safety_stock =
                     RoundHalfEven(ltd.num * (sf.num - sf.den), ltd.den * sf.den)
              /\ result.reorder_point = RoundHalfEven(ltd.num * sf.num, ltd.den * sf.den)

\* a safety factor below 1: negative safety stock under a positive reorder point
C14_Witness ==
    /\ pc = "rop_done" /\ ~Raised(result)
    /\ RLt(args.safety_factor, Rat(1, 1))
    /\ result.safety_stock < 0
    /\ result.reorder_point > 0

----------------------------------------------------------------------------
(* C15 *)

\* the entry that the inputs of an item (its stock, its details, its sales and
\* its predicted demand) determine
C15_Entry(item_id) ==
    priority_entry(item_id,
        generate_inventory_insights(item_id,
            generate_forecast(item_id, ForecastDays).forecast_df))

\* e stands before f in the ranking: higher score, or equal score and lower id
C15_Before(e, f) ==
    \/ e.urgency_score > f.urgency_score
    \/ e.urgency_score = f.urgency_score /\ e.item_id < f.item_id

\* C15: the ranked output is a function of the set of per-item inputs alone:
\* it holds the entry of every item that can be analysed, each at the place
\* that (urgency_score descending, item_id ascending) gives it, whatever the
\* order in which table inv stores the items; two runs over the same inputs
\* therefore give the same ordered output, ties included.
C15_Deterministic ==
    pc = "reported" =>
        LET entries == {C15_Entry(i) : i \in C12_Sound}
        IN  /\ Len(reorder_analysis) = Cardinality(entries)
            /\ \A k \in 1..Len(reorder_analysis) :
                  /\ reorder_analysis[k] \in entries
                  /\ k = 1 + Cardinality({e \in entries :
                                             C15_Before(e, reorder_analysis[k])})

\* inv stored in descending item_id order, three entries of equal score:
\* the output is in ascending item_id order
C15_Witness ==
    /\ pc = "reported"
    /\ inv[1].item_id > inv[2].item_id /\ inv[2].item_id > inv[3].item_id
    /\ Len(reorder_analysis) = 3
    /\ \A k \in 1..3 : /\ reorder_analysis[k].item_id = k
                       /\ reorder_analysis[k].urgency_score = 100

----------------------------------------------------------------------------
(* C16 *)

\* generate_forecast has returned a forecast
Forecasted == pc \in {"start", "done"} /\ result # None

\* C16: every point of a forecast returned by generate_forecast has expected
\* demand, lower bound and upper bound >= 0, and lower <= expected <= upper
\* holds after the clamp at every point where the predictor's output had it.
C16_Clamped ==
    Forecasted =>
        LET df  == result.forecast_df
            raw == predict(predicted[the_item], [i \in 1..Len(df) |-> df[i].ds])
        IN  \A i \in 1..Len(df) :
                /\ df[i].yhat >= 0 /\ df[i].yhat_lower >= 0 /\ df[i].yhat_upper >= 0
                /\ (raw[i].yhat_lower <= raw[i].yhat /\ raw[i].yhat <= raw[i].yhat_upper)
                      => (df[i].yhat_lower <= df[i].yhat /\ df[i].yhat <= df[i].yhat_upper)
                /\ df[i].yhat = (IF raw[i].yhat < 0 THEN 0 ELSE raw[i].yhat)

\* a predicted point below zero with an interval around zero: the clamp
\* raises the point and the lower bound to 0 and leaves the upper bound
C16_Witness ==
    /\ Forecasted
    /\ predicted[the_item].rate < 0
    /\ predicted[the_item].rate + predicted[the_item].lower < predicted[the_item].rate
    /\ predicted[the_item].rate + predicted[the_item].upper > 0
    /\ LET last == result.forecast_df[Len(result.forecast_df)]
       IN  last.yhat = 0 /\ last.yhat_lower = 0 /\ last.yhat_upper > 0

----------------------------------------------------------------------------
(* C17 *)

SalesDates(item_id) ==
    {sales[k].date : k \in {j \in 1..Len(sales) : sales[j].item_id = item_id}}

\* quantity sold of the item on day d, over all its sales rows
SoldOn(item_id, d) ==
    SeqSum([k \in 1..Len(sales) |->
               IF sales[k].item_id = item_id /\ sales[k].date = d
               THEN sales[k].sale ELSE 0])

\* C17: the history that prepare_forecast_data hands to the predictor holds
\* every calendar day from the earliest to the latest sales date exactly once,
\* in strictly increasing date order; a day with sales has the sum of its
\* quantities and a day without a sales row has quantity 0.  The fitted model
\* of a returned forecast has that history.
C17_HistoryFilled ==
    LET h == prepare_forecast_data(the_item)
    IN  /\ Raised(h) <=> SalesDates(the_item) = {}
        /\ ~Raised(h) =>
              LET first == SetMin(SalesDates(the_item))
                  last  == SetMax(SalesDates(the_item))
              IN  /\ Len(h.dfp) = last - first + 1
                  /\ \A i \in 1..Len(h.dfp) :
                        /\ h.dfp[i].ds = first + i - 1
                        /\ h.dfp[i].y = SoldOn(the_item, h.dfp[i].ds)
                        /\ h.dfp[i].ds \notin SalesDates(the_item) => h.dfp[i].y = 0
        /\ Forecasted => result.model.history = h.dfp

\* two sales rows stored latest first, with a day between them that has no row
C17_Witness ==
    /\ Forecasted
    /\ Len(sales) = 2 /\ sales[1].date = sales[2].date + 2
    /\ Len(result.model.history) = 3
    /\ result.model.history[2].y = 0
    /\ result.model.history[3].y = sales[1].sale

----------------------------------------------------------------------------
(* C18 *)

\* C18: the forecast that generate_forecast(item, horizon_days) returns and
\* the analyzers consume has one row per calendar day of the requested future
\* window: horizon_days rows, strictly increasing in date without gaps and
\* all after the last sales date, so that the reported forecast period equals
\* horizon_days.
C18_HorizonRows ==
    Forecasted =>
        /\ Len(result.forecast_df) = args.forecast_days
        /\ Consecutive(result.forecast_df)
        /\ \A i \in 1..Len(result.forecast_df) :
              result.forecast_df[i].ds > SetMax(SalesDates(the_item))
        /\ (pc = "done" /\ insights.success) =>
              insights.forecast_period_days = args.forecast_days

\* what the code returns: the rows of the history in front of the
\* horizon_days future rows, consecutive days from the first sales date
C18_HistoryAndHorizon ==
    Forecasted =>
        /\ Len(result.forecast_df) = Len(result.model.history) + args.forecast_days
        /\ Consecutive(result.forecast_df)
        /\ result.forecast_df[1].ds = SetMin(SalesDates(the_item))
        /\ (pc = "done" /\ insights.success) =>
              /\ insights.forecast_period_days
                     = Len(result.model.history) + args.forecast_days
              /\ forecast_df = result.forecast_df

----------------------------------------------------------------------------
(* C19 *)

\* day i (1-based) is the first forecast day with strictly positive demand
FirstDemand(df, i) ==
    /\ df[i].yhat > 0
    /\ \A j \in 1..(i - 1) : df[j].yhat <= 0

\* C19: with on_hand = 0, calculate_coverage_days reports exhaustion at the
\* first forecast day that has strictly positive expected demand
\* (coverage_days is that day's index), and when no day has positive demand it
\* reports status sufficient with remaining inventory 0.
C19_ZeroStock ==
    (Analysed /\ Consecutive(forecast_df) /\ on_hand = 0) =>
        /\ \A i \in 1..Horizon :
              FirstDemand(forecast_df, i) =>
                  /\ coverage.coverage_days = PyInt(i - 1)
                  /\ coverage.cover_until = strftime(forecast_df[i].ds)
        /\ (\A i \in 1..Horizon : forecast_df[i].yhat = 0) =>
              /\ coverage.status = "sufficient"
              /\ REq(coverage.remaining_inventory, [num |-> 0, den |-> 1])

\* what the code does with on_hand = 0 and non-negative demand: the first row
\* already satisfies cum_demand >= 0, so exhaustion is reported on the first
\* forecast day, whatever the demand
C19_ZeroStockFirstDay ==
    (Analysed /\ on_hand = 0) =>
        /\ coverage.coverage_days = PyInt(0)
        /\ coverage.cover_until = strftime(forecast_df[1].ds)
        /\ coverage.status = "critical"

----------------------------------------------------------------------------
(* C20 *)

\* lead_time_demand x safety_factor, at full precision
C20_ReorderPoint ==
    RMul(lead_time_demand(forecast_df, details.lead_time), reorder.safety_factor)

\* C20: the 'on_hand <= reorder_point' decision of the composer is taken
\* against lead_time_demand x safety_factor itself, not against its rounded
\* value, and the result of calculate_reorder_point keeps the reorder point
\* and the safety stock at full precision.
C20_FullPrecision ==
    Analysed =>
        /\ (\E k \in 1..Len(insights.recommendations) :
                insights.recommendations[k] = RecReorder)
              <=> RLe([num |-> on_hand, den |-> 1], C20_ReorderPoint)
        /\ REq([num |-> reorder.reorder_point, den |-> 1], C20_ReorderPoint)

\* what the code does: the result holds the rounded values only, and the
\* decision is taken against the rounded reorder point
C20_RoundedDecision ==
    Analysed =>
        /\ reorder.reorder_point = RoundHalfEven(C20_ReorderPoint.num, C20_ReorderPoint.den)
        /\ (\E k \in 1..Len(insights.recommendations) :
                insights.recommendations[k] = RecReorder)
              <=> on_hand <= reorder.reorder_point

----------------------------------------------------------------------------
(* cleaning.py: header aliasing and clean_inventory_df.  A frame is        *)
(* [columns, data]: the labels in order and one record per row, keyed by   *)
(* label.  Header and cell texts are strings of a bounded universe, on     *)
(* which the string functions are tabulated.                               *)

REQUIRED_COLS ==
    <<"sku", "product_name", "on_hand", "backroom_units", "shelf_units",
      "avg_daily_sales", "lead_time_days">>

NUMERIC_COLS ==
    <<"on_hand", "backroom_units", "shelf_units", "avg_daily_sales", "lead_time_days">>

\* alias -> canonical
RENAME_MAP ==
       ("onhand" :> "on_hand")
    @@ ("on_hand_qty" :> "on_hand")
    @@ ("qty_on_hand" :> "on_hand")
    @@ ("avg_dly_sales" :> "avg_daily_sales")
    @@ ("avg_sales_per_day" :> "avg_daily_sales")
    @@ ("lead_time" :> "lead_time_days")
    @@ ("leadtime_days" :> "lead_time_days")
    @@ ("backroom" :> "backroom_units")
    @@ ("backroom_qty" :> "backroom_units")
    @@ ("shelf" :> "shelf_units")
    @@ ("shelf_qty" :> "shelf_units")

\* canonical -> its accepted variants
SYNONYMS_BASE ==
       ("sku" :>
          {"gtin", "item", "item id", "item number", "item_id",
          "item_number", "product id", "product_id", "product_sku",
          "sku", "upc"})
    @@ ("product_name" :>
          {"description", "item_name", "name", "product", "product_name",
          "title"})
    @@ ("on_hand" :>
          {"current on hand", "oh", "on hand", "on hand qty", "on_hand",
          "on_hand_qty", "onhand", "qty on hand", "qty_on_hand",
          "store_on_hand"})
    @@ ("backroom_units" :>
          {"back room", "backroom", "backroom_qty", "backroom_units",
          "backstock", "boh", "stockroom"})
    @@ ("shelf_units" :>
          {"front", "frontstock", "on_shelf", "shelf", "shelf_qty",
          "shelf_units"})
    @@ ("avg_daily_sales" :>
          {"ads", "average daily sales", "avg daily sales",
          "avg dly sales", "avg_demand", "avg_sales_per_day",
          "daily_avg"})
    @@ ("lead_time_days" :>
          {"lead time", "lead time (days)", "lead_time", "leadtime",
          "leadtime_days", "lt_days"})

\* str.strip() on the header and cell texts of the model
str_strip_table ==
       ("sku" :> "sku")
    @@ ("product_name" :> "product_name")
    @@ ("on_hand" :> "on_hand")
    @@ ("backroom_units" :> "backroom_units")
    @@ ("shelf_units" :> "shelf_units")
    @@ ("avg_daily_sales" :> "avg_daily_sales")
    @@ ("lead_time_days" :> "lead_time_days")
    @@ ("Item-ID" :> "Item-ID")
    @@ ("onhand" :> "onhand")
    @@ (" On Hand (qty) " :> "On Hand (qty)")
    @@ ("backroom" :> "backroom")
    @@ ("shelf" :> "shelf")
    @@ ("avg_dly_sales" :> "avg_dly_sales")
    @@ ("lead_time" :> "lead_time")
    @@ ("notes" :> "notes")
    @@ (" Widget A " :> "Widget A")
    @@ ("00123" :> "00123")

strip(s) == str_strip_table[s]

\* _normalize on the stripped headers of the model and on every alias:
\* lowercase, trim, runs of whitespace, _ and - collapsed to one space, a
\* trailing parenthetical removed
normalize_table ==
       ("sku" :> "sku")
    @@ ("product_name" :> "product name")
    @@ ("on_hand" :> "on hand")
    @@ ("backroom_units" :> "backroom units")
    @@ ("shelf_units" :> "shelf units")
    @@ ("avg_daily_sales" :> "avg daily sales")
    @@ ("lead_time_days" :> "lead time days")
    @@ ("Item-ID" :> "item id")
    @@ ("onhand" :> "onhand")
    @@ ("On Hand (qty)" :> "on hand")
    @@ ("backroom" :> "backroom")
    @@ ("shelf" :> "shelf")
    @@ ("avg_dly_sales" :> "avg dly sales")
    @@ ("lead_time" :> "lead time")
    @@ ("notes" :> "notes")
    @@ ("gtin" :> "gtin")
    @@ ("item" :> "item")
    @@ ("item id" :> "item id")
    @@ ("item number" :> "item number")
    @@ ("item_id" :> "item id")
    @@ ("item_number" :> "item number")
    @@ ("product id" :> "product id")
    @@ ("product_id" :> "product id")
    @@ ("product_sku" :> "product sku")
    @@ ("upc" :> "upc")
    @@ ("description" :> "description")
    @@ ("item_name" :> "item name")
    @@ ("name" :> "name")
    @@ ("product" :> "product")
    @@ ("title" :> "title")
    @@ ("current on hand" :> "current on hand")
    @@ ("oh" :> "oh")
    @@ ("on hand" :> "on hand")
    @@ ("on hand qty" :> "on hand qty")
    @@ ("on_hand_qty" :> "on hand qty")
    @@ ("qty on hand" :> "qty on hand")
    @@ ("qty_on_hand" :> "qty on hand")
    @@ ("store_on_hand" :> "store on hand")
    @@ ("back room" :> "back room")
    @@ ("backroom_qty" :> "backroom qty")
    @@ ("backstock" :> "backstock")
    @@ ("boh" :> "boh")
    @@ ("stockroom" :> "stockroom")
    @@ ("front" :> "front")
    @@ ("frontstock" :> "frontstock")
    @@ ("on_shelf" :> "on shelf")
    @@ ("shelf_qty" :> "shelf qty")
    @@ ("ads" :> "ads")
    @@ ("average daily sales" :> "average daily sales")
    @@ ("avg daily sales" :> "avg daily sales")
    @@ ("avg dly sales" :> "avg dly sales")
    @@ ("avg_demand" :> "avg demand")
    @@ ("avg_sales_per_day" :> "avg sales per day")
    @@ ("daily_avg" :> "daily avg")
    @@ ("lead time" :> "lead time")
    @@ ("lead time (days)" :> "lead time")
    @@ ("leadtime" :> "leadtime")
    @@ ("leadtime_days" :> "leadtime days")
    @@ ("lt_days" :> "lt days")

_normalize(text) == normalize_table[text]

\* the labels of the model in the order of Python's string comparison
python_str_order ==
    <<"Item-ID",
      "On Hand (qty)",
      "avg_daily_sales",
      "avg_dly_sales",
      "backroom",
      "backroom_units",
      "days_of_cover",
      "lead_time",
      "lead_time_days",
      "notes",
      "on_hand",
      "onhand",
      "product_name",
      "restock_needed",
      "safety_stock",
      "shelf",
      "shelf_units",
      "sku">>

PyBool(b) == [t |-> "bool", v |-> b]

\* _build_alias_to_canonical: every variant and canonical name, normalised,
\* in the order of SYNONYMS_BASE (a later canonical replaces an earlier one),
\* then the RENAME_MAP pairs on top
_ALIAS_TO_CANON ==
    LET variants(i)    == SYNONYMS_BASE[REQUIRED_COLS[i]] \cup {REQUIRED_COLS[i]}
        from_base(n)   == { i \in 1..Len(REQUIRED_COLS) :
                              n \in { _normalize(alias) : alias \in variants(i) } }
        from_rename(n) == { alias \in DOMAIN RENAME_MAP : _normalize(alias) = n }
        keys == UNION { { _normalize(alias) : alias \in variants(i) } :
                          i \in 1..Len(REQUIRED_COLS) }
                \cup { _normalize(alias) : alias \in DOMAIN RENAME_MAP }
    IN  [ n \in keys |->
            IF from_rename(n) # {}
            THEN RENAME_MAP[CHOOSE alias \in from_rename(n) : TRUE]
            ELSE REQUIRED_COLS[SetMax(from_base(n))] ]

\* the labels of a frame
Labels(df) == { df.columns[i] : i \in 1..Len(df.columns) }

\* DataFrame.empty: no row or no column
empty(df) == Len(df.data) = 0 \/ Len(df.columns) = 0

\* the frame with every label c replaced by target[c]
relabel(df, target) ==
    [ columns |-> [ i \in 1..Len(df.columns) |-> target[df.columns[i]] ],
      data    |-> [ r \in 1..Len(df.data) |->
                      [ c \in { target[o] : o \in Labels(df) } |->
                          df.data[r][CHOOSE o \in Labels(df) : target[o] = c] ] ] ]

\* a dict as the sequence of its items in insertion order
dict_has(d, k) == \E i \in 1..Len(d) : d[i].key = k

setdefault(d, k, v) == IF dict_has(d, k) THEN d ELSE Append(d, [key |-> k, value |-> v])

\* norm_to_original after the first n columns: the first column of each
\* normalised name
RECURSIVE norm_to_original(_, _)
norm_to_original(original_cols, n) ==
    IF n = 0 THEN <<>>
    ELSE CHOOSE d \in { setdefault(acc, _normalize(original_cols[n]), original_cols[n]) :
                          acc \in {norm_to_original(original_cols, n - 1)} } : TRUE

\* canonical_to_original after the first n items of norm_to_original
RECURSIVE canonical_to_original(_, _, _)
canonical_to_original(df, items, n) ==
    IF n = 0 THEN <<>>
    ELSE LET norm     == items[n].key
             original == items[n].value
             step(acc) ==
                 IF norm \notin DOMAIN _ALIAS_TO_CANON THEN acc
                 ELSE LET canon == _ALIAS_TO_CANON[norm]
                      IN  IF canon \in Labels(df) /\ ~dict_has(acc, canon)
                          THEN Append(acc, [key |-> canon, value |-> canon])
                          ELSE setdefault(acc, canon, original)
         IN  CHOOSE d \in { step(acc) :
                              acc \in {canonical_to_original(df, items, n - 1)} } : TRUE

\* rename_map: original -> canonical, identities and taken canonical names
\* skipped
rename_map_of(df) ==
    LET renamed(e) == e.value # e.key /\ e.key \notin Labels(df)
    IN  CHOOSE m \in { SelectSeq(canonical_to_original(df, items, Len(items)), renamed) :
                         items \in {norm_to_original(df.columns, Len(df.columns))} } : TRUE

\* df.rename(columns=rename_map)
rename(df, rename_map) ==
    LET target(c) == IF \E i \in 1..Len(rename_map) : rename_map[i].value = c
                     THEN rename_map[CHOOSE i \in 1..Len(rename_map) :
                                         rename_map[i].value = c].key
                     ELSE c
    IN  relabel(df, [c \in Labels(df) |-> target(c)])

\* mutant: the headers of a frame without rows are mapped like any others
auto_map_columns_any(df) ==
    CHOOSE out \in { rename(df, m) : m \in {rename_map_of(df)} } : TRUE

\* the frame renamed to canonical names; an empty frame is returned as it is
_auto_map_columns(df) ==
    IF empty(df) THEN df
    ELSE CHOOSE out \in { rename(df, m) : m \in {rename_map_of(df)} } : TRUE

\* [c for c in required if c not in df.columns]
missing_of(df, required) ==
    LET absent(c) == c \notin Labels(df)
    IN  SelectSeq(required, absent)

\* the mapped frame, or the ValueError raised when a required column is missing
_ensure_required_columns(df) ==
    LET checked(mapped) ==
            IF missing_of(mapped, REQUIRED_COLS) # <<>>
            THEN Raise("ValueError") ELSE mapped
    IN  CHOOSE out \in { checked(_auto_map_columns(stripped)) :
                           stripped \in {relabel(df, [c \in Labels(df) |-> strip(c)])} } : TRUE

_standardize_columns(df) == _ensure_required_columns(df)

_validate_columns(df, required) ==
    LET missing == missing_of(df, required)
    IN  [ok |-> Len(missing) = 0, missing |-> missing]

\* pd.to_numeric(errors="coerce").fillna(0) on one cell
to_numeric_fillna0(cell) == IF cell.t = "int" THEN Rat(cell.v, 1) ELSE Rat(0, 1)

\* clip(lower=0)
clip_lower(x) == IF RLt(x, Rat(0, 1)) THEN Rat(0, 1) ELSE x

DefaultSafetyStock == Rat(2, 1)

DerivedCols == <<"days_of_cover", "restock_needed", "safety_stock">>

\* steps 2 to 7 on one row
clean_row(row, shelf_low_threshold) ==
    LET num(c) == to_numeric_fillna0(row[c])
        avg    == num("avg_daily_sales")
        onh    == num("on_hand")
        days   == IF RLt(Rat(0, 1), avg) THEN RDiv(onh, avg) ELSE Rat(0, 1)
        mask   == /\ RLt(num("shelf_units"), Rat(shelf_low_threshold, 1))
                  /\ RLt(Rat(0, 1), num("backroom_units"))
        numeric == { NUMERIC_COLS[i] : i \in 1..Len(NUMERIC_COLS) }
    IN  [ c \in DOMAIN row \cup { DerivedCols[i] : i \in 1..Len(DerivedCols) } |->
            CASE c \in {"sku", "product_name"} -> PyStr(strip(row[c].v))
              [] c \in numeric                 -> clip_lower(num(c))
              [] c = "days_of_cover"           -> clip_lower(clip_lower(days))   \* np.maximum, then clip
              [] c = "restock_needed"          -> PyBool(mask)
              [] c = "safety_stock"            ->
                     IF c \in DOMAIN row THEN row[c] ELSE DefaultSafetyStock
              [] OTHER                         -> row[c] ]

\* sorted() on a set of labels
sorted(labels) ==
    LET member(c) == c \in labels
    IN  SelectSeq(python_str_order, member)

\* the cleaned frame, or the ValueError of a missing required column
clean_inventory_df(df, shelf_low_threshold) ==
    LET cleaned(standardized) ==
        IF Raised(standardized) THEN standardized
        ELSE
        IF ~_validate_columns(standardized, REQUIRED_COLS).ok
        THEN Raise("ValueError")
        ELSE
        LET present        == Labels(standardized)
                                \cup { DerivedCols[i] : i \in 1..Len(DerivedCols) }
            here(c)        == c \in present
            derived_in_df  == SelectSeq(DerivedCols, here)
            canonical_block == SelectSeq(REQUIRED_COLS, here)
            block          == { REQUIRED_COLS[i] : i \in 1..Len(REQUIRED_COLS) }
                                \cup { DerivedCols[i] : i \in 1..Len(DerivedCols) }
            other_cols     == sorted(present \ block)
        IN  [ columns |-> canonical_block \o derived_in_df \o other_cols,
              data    |-> [ r \in 1..Len(standardized.data) |->
                              clean_row(standardized.data[r], shelf_low_threshold) ] ]
    IN  CHOOSE out \in { cleaned(standardized) :
                           standardized \in {_standardize_columns(df)} } : TRUE

----------------------------------------------------------------------------
(* One call of clean_inventory_df *)

\* the headers a file may give to each canonical column, none among them
SkuHeaders     == {<<>>, <<"sku">>, <<"Item-ID">>}
NameHeaders    == {<<>>, <<"product_name">>}
OnHandHeaders  ==
    { <<>>, <<"on_hand">>, <<"onhand">>, <<" On Hand (qty) ">>,
      <<"onhand", "on_hand">>, <<"onhand", " On Hand (qty) ">> }
BackroomHeaders == {<<>>, <<"backroom_units">>, <<"backroom">>}
ShelfHeaders   == {<<>>, <<"shelf_units">>, <<"shelf">>}
SalesHeaders   == {<<>>, <<"avg_daily_sales">>, <<"avg_dly_sales">>}
LeadHeaders    == {<<>>, <<"lead_time_days">>, <<"lead_time">>}
OtherHeaders   == {<<>>, <<"notes">>}

HeaderLists ==
    { a \o b \o c \o d \o e \o f \o g \o h :
        a \in SkuHeaders, b \in NameHeaders, c \in OnHandHeaders,
        d \in BackroomHeaders, e \in ShelfHeaders, f \in SalesHeaders,
        g \in LeadHeaders, h \in OtherHeaders }

TextHeaders == {"sku", "Item-ID", "product_name", "notes"}

\* a frame of n equal rows under the given headers
SampleFrame(cols, n) ==
    [ columns |-> cols,
      data    |-> [ r \in 1..n |->
                      [ c \in { cols[i] : i \in 1..Len(cols) } |->
                          IF c \in TextHeaders THEN PyStr(" Widget A ") ELSE PyInt(1) ] ] ]

HeaderFrames == { SampleFrame(cols, n) : cols \in HeaderLists, n \in 0..1 }

\* numeric cells: negative, zero and positive numbers, text and missing values
NumCells == { PyInt(n) : n \in -1..MaxUnits } \cup {PyStr("n/a"), None}

\* one row under the headers of the tests, with any numeric cells
ValueFrames ==
    { [ columns |-> <<"sku", "product_name", "onhand", "backroom", "shelf",
                      "avg_dly_sales", "lead_time">>,
        data    |-> << [ sku |-> PyStr("00123"), product_name |-> PyStr(" Widget A "),
                         onhand |-> o, backroom |-> b, shelf |-> s,
                         avg_dly_sales |-> a, lead_time |-> l ] >> ] :
        o \in NumCells, b \in NumCells, s \in NumCells, a \in NumCells,
        l \in {PyInt(-1), PyInt(1)} }

InitCleaning ==
    /\ \/ args \in [df : HeaderFrames, shelf_low_threshold : {DefaultShelfLow}]
       \/ args \in [df : ValueFrames, shelf_low_threshold : 0..MaxUnits]
    /\ pc = "clean"
    /\ result = None
    /\ forecast_df = <<>>
    /\ the_item = Item
    /\ inv = <<>>
    /\ item_dim = NoDetails
    /\ insights = None
    /\ sales = <<>>
    /\ predicted = NoDetails
    /\ all_items = <<>>
    /\ idx = 0
    /\ reorder_analysis = <<>>
    /\ report = None
    /\ stdout = <<>>

CleanInventoryDf ==
    /\ pc = "clean"
    /\ result' = clean_inventory_df(args.df, args.shelf_low_threshold)
    /\ pc' = "clean_done"
    /\ UNCHANGED <<forecast_df, inv, item_dim, the_item, insights, sales, predicted,
                   args, all_items, idx, reorder_analysis, report, stdout>>

NextCleaning == CleanInventoryDf

SpecCleaning == InitCleaning /\ [][NextCleaning]_vars

----------------------------------------------------------------------------
(* C21 *)

\* C21: calculate_coverage_days rejects an empty forecast with an error
\* instead of returning a coverage result, whatever the stock.
C21_EmptyRejected ==
    (pc = "coverage_done" /\ forecast_df = <<>>) =>
        /\ Raised(result)
        /\ "status" \notin DOMAIN result

\* the call on an empty frame with a stock of 1 has raised
C21_Witness ==
    /\ pc = "coverage_done"
    /\ forecast_df = <<>>
    /\ args.current_inventory = 1
    /\ result = Raise("IndexError")

----------------------------------------------------------------------------
(* C22 *)

\* C22: a forecast whose dates are not strictly increasing by exactly one day
\* (unsorted, duplicated or gapped) is rejected by calculate_coverage_days
\* with a MalformedForecast error.
C22_MalformedRejected ==
    (pc = "coverage_done" /\ ~Consecutive(forecast_df)) =>
        result = Raise("MalformedForecast")

----------------------------------------------------------------------------
(* C23 *)

\* C23: a negative on_hand (coverage), a negative lead time (reorder point)
\* and a negative unit price or holding-cost rate (financial) are each
\* rejected with InvalidInput; none yields a computed result.
C23_InvalidInputRejected ==
    /\ (pc = "coverage_done" /\ args.current_inventory < 0) =>
           result = Raise("InvalidInput")
    /\ (pc = "rop_done" /\ args.lead_time < 0) =>
           result = Raise("InvalidInput")
    /\ (pc = "financial_done"
          /\ (RLt(args.price, Rat(0, 1)) \/ RLt(args.holding_cost_rate, Rat(0, 1)))) =>
           result = Raise("InvalidInput")

----------------------------------------------------------------------------
(* C24 *)

\* C24: generate_inventory_insights does not catch the errors raised by the
\* analyzers: when an analyzer raises, the error reaches the caller and no
\* result is returned.
C24_ErrorsPropagate ==
    (/\ pc = "done"
     /\ get_item_inventory(the_item) # None
     /\ get_item_details(the_item) # NoDetails
     /\ Raised(calculate_coverage_days(forecast_df, get_item_inventory(the_item).v))) =>
        Raised(insights)

----------------------------------------------------------------------------
(* C25 *)

\* the predictor fails: no sales history of the item, or the fit raises
PredictorFailed ==
    LET historical_data == prepare_forecast_data(the_item)
    IN  \/ Raised(historical_data)
        \/ Raised(create_prophet_model(historical_data.dfp))

RequestReturned == pc \in {"request_failed", "request_done"}

\* C25: in process_forecast_request a failure of the predictor is fatal: the
\* request returns a failure result and no inventory analysis is attempted or
\* reported; and the inventory analysis only ever runs on a forecast that has
\* been produced.
C25_ForecastFirst ==
    /\ [](PredictorFailed =>
            /\ insights = None
            /\ pc \notin {"request_forecasted", "request_done"}
            /\ RequestReturned =>
                  /\ ~result.success
                  /\ "inventory_analysis" \notin DOMAIN result)
    /\ [][insights' # insights =>
            /\ ~PredictorFailed
            /\ pc = "request_forecasted"
            /\ result.success
            /\ forecast_df # <<>>
            /\ forecast_df = generate_forecast(the_item, args.forecast_days).forecast_df]_vars

\* a request with the analysis asked for, on an item with a single day of
\* sales, has returned the failure of the fit
C25_Witness ==
    /\ pc = "request_failed"
    /\ args.include_inventory_analysis
    /\ Len(sales) = 1
    /\ result = forecast_error("ValueError")
    /\ insights = None

----------------------------------------------------------------------------
(* C26 *)

Cleaned == pc = "clean_done" /\ ~Raised(result)

\* the derived and numeric cells of a cleaned row agree with its own cells
RowConsistent(row, shelf_low_threshold) ==
    /\ row.restock_needed.v =
           (/\ RLt(row.shelf_units, Rat(shelf_low_threshold, 1))
            /\ RLt(Rat(0, 1), row.backroom_units))
    /\ row.days_of_cover =
           IF RLt(Rat(0, 1), row.avg_daily_sales)
           THEN RDiv(row.on_hand, row.avg_daily_sales)
           ELSE Rat(0, 1)
    /\ \A c \in { NUMERIC_COLS[i] : i \in 1..Len(NUMERIC_COLS) } \cup {"days_of_cover"} :
           RLe(Rat(0, 1), row[c])

\* C26: in every cleaned row restock_needed is true exactly when shelf_units
\* is below shelf_low_threshold and backroom_units is above 0 (both strict),
\* days_of_cover is on_hand / avg_daily_sales when avg_daily_sales > 0 and 0
\* otherwise, and every numeric column is >= 0.
C26_RowsConsistent ==
    Cleaned =>
        \A r \in 1..Len(result.data) :
            RowConsistent(result.data[r], args.shelf_low_threshold)

\* the same, for thresholds above 0
C26_RowsConsistentAboveZero ==
    (Cleaned /\ args.shelf_low_threshold > 0) =>
        \A r \in 1..Len(result.data) :
            RowConsistent(result.data[r], args.shelf_low_threshold)

----------------------------------------------------------------------------
(* C27 *)

\* the canonical column c is there once the headers are mapped: under its own
\* name or, in a frame with rows, under a header that is one of its aliases
PresentAfterMapping(df, c) ==
    LET stripped == { strip(h) : h \in Labels(df) }
    IN  \/ c \in stripped
        \/ /\ ~empty(df)
           /\ \E h \in stripped :
                 /\ _normalize(h) \in DOMAIN _ALIAS_TO_CANON
                 /\ _ALIAS_TO_CANON[_normalize(h)] = c

\* C27: clean_inventory_df raises ValueError, and returns no frame, whenever
\* at least one of the seven required columns is missing after the header
\* alias mapping.
C27_MissingRaises ==
    (/\ pc = "clean_done"
     /\ \E i \in 1..Len(REQUIRED_COLS) : ~PresentAfterMapping(args.df, REQUIRED_COLS[i])) =>
        result = Raise("ValueError")

\* a frame with a row and only sku and product_name has been refused
C27_Witness ==
    /\ pc = "clean_done"
    /\ args.df.columns = <<"sku", "product_name">>
    /\ Len(args.df.data) = 1
    /\ result = Raise("ValueError")

----------------------------------------------------------------------------
(* C28 *)

\* the projector's inventory level at the end of each day, in 1/YDen units
Projected == inventory_col(forecast_df, on_hand)

\* day i (1-based) is the first day at whose end the level of the curve is 0
DepletedAt(curve, i) ==
    /\ curve[i] = 0
    /\ \A j \in 1..(i - 1) : curve[j] > 0

\* C28: for the same forecast of consecutive days and the same on_hand, the
\* coverage analyzer reports exhaustion at index i exactly when the projected
\* inventory is 0 on day i and above 0 on every earlier day; it reports
\* sufficient exactly when the projected inventory is above 0 on every day,
\* and then the expected sales are the total forecast demand, otherwise they
\* are on_hand (at full precision and as reported).
C28_SameDepletion ==
    (Analysed /\ Consecutive(forecast_df)) =>
        LET locals == financial_locals(forecast_df, on_hand, details.price,
                                       details.holding_cost)
            curve  == Projected
            lasts  == \A i \in 1..Horizon : curve[i] > 0
        IN  /\ \A i \in 1..Horizon :
                   (coverage.coverage_days = PyInt(i - 1)) <=> DepletedAt(curve, i)
            /\ (coverage.status = "sufficient") <=> lasts
            /\ (coverage.cover_until = None) <=> lasts
            /\ IF coverage.status = "sufficient"
               THEN /\ locals.expected_sales = locals.total_demand
                    /\ financial.expected_sales = financial.total_demand
               ELSE /\ locals.expected_sales = Rat(on_hand, 1)
                    /\ financial.expected_sales = on_hand

\* one unit a day against a stock of 3: exhaustion reported at index 2, the
\* projected level 0 from the third day on, 3 units sold of a larger demand
C28_Witness ==
    /\ Analysed /\ Consecutive(forecast_df) /\ on_hand = 3
    /\ Horizon = MaxDays
    /\ \A i \in 1..Horizon : forecast_df[i].yhat = YDen
    /\ coverage.coverage_days = PyInt(2)
    /\ Projected[2] > 0 /\ Projected[3] = 0
    /\ financial.expected_sales = 3
    /\ financial.total_demand = MaxDays

----------------------------------------------------------------------------
(* C29 *)

\* C29: every ranked entry of critical coverage status is in the high bucket
\* (score >= 75) and every entry of low status is in the medium or the high
\* bucket (score >= 25), whatever the reorder-point and margin terms add; and
\* urgency_score is 0 exactly when the list of urgency reasons is empty.
C29_StatusFloors ==
    /\ \A i \in 1..Len(reorder_analysis) :
          LET e == reorder_analysis[i]
          IN  /\ e.coverage_status = "critical" => e.urgency_score >= 75
              /\ e.coverage_status = "low" => e.urgency_score >= 25
              /\ (e.urgency_score = 0) <=> (e.urgency_reasons = <<>>)
    /\ pc = "reported" =>
          \A i \in 1..Len(reorder_analysis) :
              LET e == reorder_analysis[i]
              IN  /\ e.coverage_status = "critical" =>
                         InBucket(report.high_priority, e)
                  /\ e.coverage_status = "low" =>
                         \/ InBucket(report.medium_priority, e)
                         \/ InBucket(report.high_priority, e)

\* a critical item above its reorder point with a low margin: 100 - 20 = 80,
\* reported in the high bucket
C29_Witness ==
    /\ pc = "reported"
    /\ Len(reorder_analysis) = 1
    /\ reorder_analysis[1].coverage_status = "critical"
    /\ ~reorder_analysis[1].below_rop
    /\ reorder_analysis[1].urgency_score = 80
    /\ Len(reorder_analysis[1].urgency_reasons) = 2
    /\ report.summary = [high |-> 1, medium |-> 0, low |-> 0]

\* a low item above its reorder point with a low margin: 50 - 20 = 30
C29_LowFloorReached ==
    /\ pc = "reported"
    /\ Len(reorder_analysis) = 1
    /\ reorder_analysis[1].coverage_status = "low"
    /\ reorder_analysis[1].urgency_score = 30
    /\ report.summary = [high |-> 0, medium |-> 1, low |-> 0]

----------------------------------------------------------------------------
(* C30 *)

\* how many of the first n elements of the sequence of ids are id
IdCount(ids, n, id) == Cardinality({ i \in 1..n : ids[i] = id })

RankedIdSeq  == [i \in 1..Len(reorder_analysis) |-> reorder_analysis[i].item_id]
SkippedIdSeq == [i \in 1..Len(stdout) |-> stdout[i].item_id]
InvIdSeq     == [i \in 1..Len(inv) |-> inv[i].item_id]
InvIds       == { inv[i].item_id : i \in 1..Len(inv) }

RankedCount(id)  == IdCount(RankedIdSeq, Len(reorder_analysis), id)
SkippedCount(id) == IdCount(SkippedIdSeq, Len(stdout), id)

\* inv holds one row per item
UniqueIds == \A i, j \in 1..Len(inv) : inv[i].item_id = inv[j].item_id => i = j

RunFinished == pc \in {"reported", "no_analyses"}

\* every item of the catalog is exactly one ranked entry or one skipped item
EachItemOnce ==
    /\ \A id \in InvIds :
          /\ RankedCount(id) + SkippedCount(id) = 1
          /\ RankedCount(id) <= 1
    /\ Len(reorder_analysis) + Len(stdout) = Cardinality(InvIds)

\* C30 as stated: when the run is over every catalog item is exactly one
\* ranked entry or skipped, never both and never twice, ranked + skipped is
\* the catalog size and no item_id occurs twice in the ranked list.
C30_AsClaimed == RunFinished => EachItemOnce

\* C30 (amended): the run terminates; it visits every row returned by the
\* inventory query exactly once, in order, and each visit ends as exactly one
\* ranked entry or one skipped item, so ranked + skipped is the number of rows
\* of inv; when inv holds one row per item, every item is exactly one ranked
\* entry or skipped and no item_id occurs twice in the ranked list.
C30_Terminates ==
    /\ [](pc \in {"loop", "reported", "no_analyses"} =>
            /\ idx \in 1..(Len(all_items) + 1)
            /\ Len(all_items) = Len(inv)
            /\ \A id \in InvIds :
                  /\ IdCount(all_items, Len(all_items), id) = IdCount(InvIdSeq, Len(inv), id)
                  /\ RankedCount(id) + SkippedCount(id) = IdCount(all_items, idx - 1, id)
            /\ Len(reorder_analysis) + Len(stdout) = idx - 1
            /\ RunFinished => idx = Len(all_items) + 1
            /\ (RunFinished /\ UniqueIds) => EachItemOnce)
    /\ [][idx' # idx => idx' = idx + 1]_vars
    /\ <>(pc \in {"reported", "no_analyses", "query_error"})

\* two items: one ranked, the other skipped
C30_Witness ==
    /\ pc = "reported"
    /\ Len(inv) = 2 /\ UniqueIds
    /\ Len(reorder_analysis) = 1
    /\ Len(stdout) = 1
    /\ reorder_analysis[1].item_id # stdout[1].item_id

====
